---- MODULE Spec2Model ----
(***************************************************************************)
(* A model of the audio-rate processors of the modular synthesizer:        *)
(*   - the CV quantizer        (src/quantizer-processor.js and the         *)
(*                              second version in src/unnamed/part_003)    *)
(*   - the drum step sequencer (src/drum-sequencer-processor.js)           *)
(*   - the slope generator     (src/just-friends-processor.js and the      *)
(*                              second version in src/unnamed/part_000)    *)
(*   - the reading of control parameters by the slope generator and the    *)
(*     formant oscillator (src/unnamed/part_000)                           *)
(*   - the FM of the slope generator and the triangle core of the formant  *)
(*     oscillator                                                          *)
(*   - the Web Audio helpers: DJEqualizer, SaturationEffect, the filter    *)
(*     bank and ZitaReverb.init                                            *)
(*                                                                         *)
(* Real numbers are exact rationals on a grid: a voltage is an integer     *)
(* number of 1/(12*Sub) volt, a phase an integer number of 1/PhaseDen      *)
(* cycle, a slope value a normalised fraction [n, d].                      *)
(***************************************************************************)
EXTENDS Integers, Sequences, FiniteSets, TLC

VARIABLES
  \* ---- quantizer
  qBuild,        \* which version of the processor is loaded: "A" or "B"
  noteMask,      \* this.noteMask, [0..11 -> BOOLEAN]
  qVolts,        \* `volts` of the last sample processed under this mask
  qQuantized,    \* `quantizedVolts` of that sample
  qWritten,      \* whether that sample exists (the last call wrote one)
  cvOut,         \* the output sample, in 1/5 of the voltage unit
  \* ---- drum sequencer (fields of DrumSequencerProcessor)
  prevStepPulse,
  prevResetPulse,
  samplesSinceLastPulse,
  samplesPerDrumStep,    \* a fraction [n, d]
  nextStepAt,            \* a fraction [n, d]
  currentStep,
  swingAmount,           \* a fraction [n, d]
  kickPattern,
  snarePattern,
  hatPattern,
  kickOut,               \* the three output channels of the last block
  snareOut,
  hatOut,
  drumEvents,            \* per sample of the last block: which of the three
                         \* triggers fired, and the cursor after the sample
  \* ---- slope generator, one channel
  jfBuild,       \* which version of the processor is loaded: "A" or "B"
  slope,         \* this.slopes[i], a record
  lastTriggers,  \* this.lastTriggers[i] (version A)
  jfOut,         \* the channel's output sample, a fraction [n, d]
  jfObs,         \* the last sample processed: whether there was one, its
                 \* mode and range, whether its trigger had a rising edge,
                 \* and the stage the channel was in before it
  \* ---- reading a control parameter over one block
  parArray,      \* parameters.<name>: one value, or one per sample
  parIndex,      \* samples of the block read so far
  parUsed,       \* the value each processor used for the last sample read
  \* ---- slope generator, the INTONE ratio
  ratioObs,      \* the last call of getIntoneRatio / calculateIntoneRatio:
                 \* its channel index, its INTONE value and its result
  \* ---- the worklet thread: messages and process() blocks
  maskInbox,    \* noteMask messages posted to the quantizer, not yet handled
  patternInbox,  \* setStep / clearPattern messages posted to the sequencer
  blkSample,     \* 0 between blocks, else the sample the two loops are at
  blkUsed,       \* what each sample of the block read: the mask and patterns
  \* ---- DJEqualizer
  eq,            \* per band: amount, killed, and the targets last scheduled
                 \* on the band's filter gain (dB) and on its gain node
  eqLast,        \* the last method called
  \* ---- SaturationEffect
  sat,           \* mode, drive, bias, mix, harmonics and the shaper's curve
  satAsked,      \* the mode string last given to the constructor or setMode
  satLast,       \* the last method called
  \* ---- filter bank
  tsObs,         \* the last sample: its controls, the three cutoffs and the
                 \* two stages of the CENTRE block
  \* ---- one state-variable filter of the bank
  svfSet,        \* cutoff, sample rate and QUALITY it runs at, and the
                 \* coefficient and resonance computed from them
  svf,           \* hp, bp, lp, ic1eq, ic2eq
  svfSamples,    \* samples processed
  \* ---- a steady step clock driving the drum sequencer
  clk,           \* its period P, the division D and the place in the
                 \* period of the next sample (the pulse is at place 0)
  clkSeen,       \* pulses so far, cursor advances in this period, in the
                 \* period before, and on the last pulse sample
  \* ---- the FM of the slope generator, the formant oscillator, the reverb
  fmObs,         \* the last sample's FM controls and channel frequencies
  mangrove,      \* the formant oscillator's core
  zita           \* the ZitaReverb instance and its init() calls

qVars == <<qBuild, noteMask, qVolts, qQuantized, qWritten, cvOut>>

drumTiming ==
  <<prevStepPulse, prevResetPulse, samplesSinceLastPulse, samplesPerDrumStep,
    nextStepAt, currentStep, swingAmount>>

drumPatterns == <<kickPattern, snarePattern, hatPattern>>

drumOuts == <<kickOut, snareOut, hatOut, drumEvents>>

drumVars == <<drumTiming, drumPatterns, drumOuts>>

jfVars == <<jfBuild, slope, lastTriggers, jfOut, jfObs>>

parVars == <<parArray, parIndex, parUsed>>

ratioVars == <<ratioObs>>

\* the sections added after the first four
threadVars == <<maskInbox, patternInbox, blkSample, blkUsed>>

eqVars == <<eq, eqLast>>

satVars == <<sat, satAsked, satLast>>

tsVars == <<tsObs>>

svfVars == <<svfSet, svf, svfSamples>>

clkVars == <<clk, clkSeen>>

moreVars == <<fmObs, mangrove, zita>>

\* the saturation effect and the filter bank
fxVars == <<satVars, tsVars, svfVars, clkVars, moreVars>>

auxVars == <<ratioVars, threadVars, eqVars, fxVars>>

vars == <<qVars, drumVars, jfVars, parVars, auxVars>>

\* what the handlers of each processor leave alone
notQ == <<drumVars, jfVars, parVars, auxVars>>

notDrum == <<qVars, jfVars, parVars, auxVars>>

notJf == <<qVars, drumVars, parVars, auxVars>>

notPar == <<qVars, drumVars, jfVars, auxVars>>

\* the first four sections
main == <<qVars, drumVars, jfVars, parVars>>

\* everything but the quantizer, the sequencer and the worklet thread
notMain == <<jfVars, parVars, ratioVars, eqVars, fxVars>>

notThread == <<main, ratioVars, eqVars, fxVars>>

notEq == <<main, ratioVars, threadVars, fxVars>>

notSat ==
  <<main, ratioVars, threadVars, eqVars, tsVars, svfVars, clkVars,
    moreVars>>

notTs ==
  <<main, ratioVars, threadVars, eqVars, satVars, svfVars, clkVars,
    moreVars>>

notSvf ==
  <<main, ratioVars, threadVars, eqVars, satVars, tsVars, clkVars,
    moreVars>>

\* the clocked sequencer leaves the patterns alone as well
notClk ==
  <<qVars, jfVars, parVars, drumPatterns, ratioVars, threadVars, eqVars,
    satVars, tsVars, svfVars, moreVars>>

notMore ==
  <<main, ratioVars, threadVars, eqVars, satVars, tsVars, svfVars, clkVars>>

----------------------------------------------------------------------------
(* Generic helpers                                                          *)

Abs(x) == IF x < 0 THEN -x ELSE x

Min2(a, b) == IF a <= b THEN a ELSE b

Max2(a, b) == IF a >= b THEN a ELSE b

\* JavaScript's % (the sign follows the dividend)
JsRem(a, b) == IF a >= 0 THEN a % b ELSE -((-a) % b)

RECURSIVE GCD(_, _)
GCD(a, b) == IF b = 0 THEN a ELSE GCD(b, a % b)

\* the fraction n/d (d # 0) in lowest terms with a positive denominator
Rat(n, d) ==
  LET s == IF d < 0 THEN -1 ELSE 1
      g == GCD(Abs(n), Abs(d))
  IN  [n |-> (s * n) \div g, d |-> (s * d) \div g]

RatInt(k) == [n |-> k, d |-> 1]

RatAdd(x, y) == Rat(x.n * y.d + y.n * x.d, x.d * y.d)

RatLe(x, y) == x.n * y.d <= y.n * x.d

RatLt(x, y) == x.n * y.d < y.n * x.d

RatSub(x, y) == Rat(x.n * y.d - y.n * x.d, x.d * y.d)

RatMul(x, y) == Rat(x.n * y.n, x.d * y.d)

\* x / y for y # 0
RatDiv(x, y) == Rat(x.n * y.d, x.d * y.n)

RatMin(x, y) == IF RatLe(x, y) THEN x ELSE y

RatMax(x, y) == IF RatLe(x, y) THEN y ELSE x

----------------------------------------------------------------------------
(* Quantizer                                                                *)

\* grid points per semitone
Sub == 2

\* the masks the controller sends have at most this many allowed pitch
\* classes, or are one of the scales below
MaxMaskNotes == 1

SemitonesPerOctave == 12

PitchClasses == 0..(SemitonesPerOctave - 1)

\* one volt, in grid units
Volt == SemitonesPerOctave * Sub

MaskOf(S) == [i \in PitchClasses |-> i \in S]

Chromatic == MaskOf(PitchClasses)

MajorScale == MaskOf({0, 2, 4, 5, 7, 9, 11})

WholeTone == MaskOf({0, 2, 4, 6, 8, 10})

Masks ==
  {MaskOf(S) : S \in {T \in SUBSET PitchClasses : Cardinality(T) <= MaxMaskNotes}}
    \cup {Chromatic, MajorScale, WholeTone}

\* Math.floor and Math.round of a number of semitones s/Sub
FloorSemi(s) == s \div Sub

RoundSemi(s) == (2 * s + Sub) \div (2 * Sub)

\* frac >= 0.5, frac = semitonesInOctave - Math.floor(semitonesInOctave)
FracAtLeastHalf(s) == 2 * (s - FloorSemi(s) * Sub) >= Sub

\* a variant of spiral that takes the lowest allowed pitch class, wherever
\* the search starts (sensitivity of QuantizedIsNearestAllowed)
spiralLowest(mask, idx, s, distance) ==
  IF \E k \in PitchClasses : mask[k]
  THEN CHOOSE k \in PitchClasses : mask[k] /\ \A j \in 0..(k - 1) : ~mask[j]
  ELSE 0

\* the spiral search of both versions, from distance `distance` on
RECURSIVE spiral(_, _, _, _)
spiral(mask, idx, s, distance) ==
  IF distance >= 12 THEN 0
  ELSE LET upIdx == (idx + distance) % 12
           downIdx == (idx - distance + 12) % 12
       IN  IF mask[upIdx]
           THEN IF mask[downIdx]
                THEN (IF FracAtLeastHalf(s) THEN upIdx ELSE downIdx)
                ELSE upIdx
           ELSE IF mask[downIdx] THEN downIdx
                ELSE spiral(mask, idx, s, distance + 1)

\* a variant of version A that leaves out the test of the starting pitch
\* class and always searches from distance 1 (sensitivity of IdempotentQuantize)
findNearestAllowedNoteSkipStart(mask, s) ==
  LET r == JsRem(FloorSemi(s), 12)
      idx == IF r < 0 THEN r + 12 ELSE r
  IN  spiral(mask, idx, s, 1)

\* version A: the starting pitch class is the floor of the semitone position
findNearestAllowedNote(mask, s) ==
  LET r == JsRem(FloorSemi(s), 12)
      idx == IF r < 0 THEN r + 12 ELSE r
  IN  IF mask[idx] THEN idx ELSE spiral(mask, idx, s, 1)

\* version B: the starting pitch class is the rounded semitone position,
\* wrapped into 0..11
findNearestAllowedNoteB(mask, s) ==
  LET targetIdx == RoundSemi(s) % 12
  IN  IF mask[targetIdx] THEN targetIdx ELSE spiral(mask, targetIdx, s, 1)

\* version A.  voltsIn and the result are in grid units (1/(12*Sub) volt);
\* noteFloat = voltsIn * 12 is the same integer read in 1/Sub semitone.
quantizeVoltage(mask, voltsIn) ==
  LET noteFloat == voltsIn
      octave == noteFloat \div Volt
      semitonesInOctave == noteFloat - octave * Volt
      snappedIdx == findNearestAllowedNote(mask, semitonesInOctave)
      snappedNote == octave * 12 + snappedIdx
  IN  snappedNote * Sub

\* version B
RECURSIVE quantizeVoltageB(_, _)
quantizeVoltageB(mask, voltsIn) ==
  LET noteFloat == voltsIn
      octave == noteFloat \div Volt
      semitonesInOctave == noteFloat - octave * Volt
  IN  IF semitonesInOctave < 0
      THEN quantizeVoltageB(mask, voltsIn + (Abs(octave) + 1) * Volt)
      ELSE LET snappedIdx == findNearestAllowedNoteB(mask, semitonesInOctave)
               snappedNote == octave * 12 + snappedIdx
           IN  snappedNote * Sub

Quantize(build, mask, v) ==
  IF build = "A" THEN quantizeVoltage(mask, v) ELSE quantizeVoltageB(mask, v)

\* An input channel is the sequence of its samples; a missing channel array
\* is the empty sequence.
NoChannel == << >>

\* `chan[i] || 0` on a channel that may be missing (i counts from 1)
SampleOrZero(chan, i) == IF chan = NoChannel THEN 0 ELSE chan[i]

\* One sample of process(), version A.  A web-audio sample w is the integer
\* w * 5 * 12 * Sub, so that `cvValue * 5.0` is the same integer read in grid
\* units of a volt, and `quantizedVolts / 5.0` likewise.
\* The result is [written, volts, quantizedVolts, out].
processSampleA(mask, cvValue, depth, offset) ==
  LET volts == cvValue * depth + offset
      quantizedVolts == quantizeVoltage(mask, volts)
  IN  [written |-> TRUE, volts |-> volts, quantizedVolts |-> quantizedVolts,
       out |-> quantizedVolts]

\* One sample of process(), version B.  Here the input sample w is the
\* integer w / 1.6 * 12 * Sub, so that `normalized` is clamp(cv, 0, Volt) / Volt
\* and `normalized * depth` is clamp(cv, 0, Volt) * depth in grid units.
processSampleB(mask, cvValue, depth, offset) ==
  LET normalized == Max2(0, Min2(Volt, cvValue))
      volts == normalized * depth
      quantizedVolts == quantizeVoltageB(mask, volts)
      finalVolts == quantizedVolts + offset
  IN  [written |-> TRUE, volts |-> volts, quantizedVolts |-> quantizedVolts,
       out |-> finalVolts]

\* process() on a one-sample block; the samples of a block do not depend on
\* each other.  The host hands in a zero-filled output buffer on every call,
\* so a call that returns early leaves the output sample 0.
quantizerProcess(build, mask, input, depth, offset) ==
  IF input = NoChannel
  THEN [written |-> FALSE, volts |-> 0, quantizedVolts |-> 0, out |-> 0]
  ELSE IF build = "A" THEN processSampleA(mask, input[1], depth, offset)
       ELSE processSampleB(mask, input[1], depth, offset)

CvInputs == {<<c>> : c \in (-Volt)..(Volt + 1)}

DepthInputs == {0, 1}

\* no transposition, or one semitone up
OffsetInputs == {0, Sub}

\* the state after construction (version A or B loaded)
QInit ==
  /\ qBuild \in {"A", "B"}
  /\ noteMask = Chromatic
  /\ qVolts = 0
  /\ qQuantized = 0
  /\ qWritten = FALSE
  /\ cvOut = 0

\* the quantizer after construction, for the specifications of the others
QIdle == QInit /\ qBuild = "A"

\* port.onmessage, type 'noteMask'.  The three observers of the last sample
\* start afresh: they always describe a sample processed under noteMask.
SetNoteMask(m) ==
  /\ noteMask' = m
  /\ qVolts' = 0
  /\ qQuantized' = 0
  /\ qWritten' = FALSE
  /\ cvOut' = 0
  /\ UNCHANGED qBuild

QSetNoteMask == \E m \in Masks : SetNoteMask(m) /\ UNCHANGED notQ

QProcess ==
  \E input \in CvInputs \cup {NoChannel}, depth \in DepthInputs,
     offset \in OffsetInputs :
    \E r \in {quantizerProcess(qBuild, noteMask, input, depth, offset)} :
        /\ qVolts' = r.volts
        /\ qQuantized' = r.quantizedVolts
        /\ qWritten' = r.written
        /\ cvOut' = r.out
        /\ UNCHANGED <<qBuild, noteMask, notQ>>

QNext == QSetNoteMask \/ QProcess

----------------------------------------------------------------------------
(* Drum sequencer                                                           *)

\* samples per process() call (the render quantum, scaled down)
BlockLen == 1

\* process() is not called once this many samples have passed without a pulse
MaxGap == 3

NumSteps == 16

\* pulse samples are in tenths: this.pulseThreshold = 0.5
PulseThreshold == 5

\* the levels of a pulse sample, in tenths: low and high
PulseLevels == {0, 10}

detectPulse(currentSample, prevSample) ==
  prevSample < PulseThreshold /\ currentSample >= PulseThreshold

\* the new value of this.currentStep
advanceDrumStep(step) == (step + 1) % NumSteps

\* the timing fields as one record
DrumState ==
  [prevStepPulse |-> prevStepPulse, prevResetPulse |-> prevResetPulse,
   samplesSinceLastPulse |-> samplesSinceLastPulse,
   samplesPerDrumStep |-> samplesPerDrumStep, nextStepAt |-> nextStepAt,
   currentStep |-> currentStep]

\* resetDrumSequence() applied to the record
resetDrumSequence(st) ==
  [st EXCEPT !.currentStep = 0, !.samplesSinceLastPulse = 0,
             !.nextStepAt = RatInt(0)]

\* a variant of drumSample whose subdivision waits until the sample count
\* has passed nextStepAt (sensitivity of DivisionStepsPerPeriod)
drumSampleLate(st, stepClockIn, resetClockIn, i, newDivision) ==
  LET s0 == [st EXCEPT !.samplesSinceLastPulse = @ + 1]
      resetHit == /\ resetClockIn # NoChannel
                  /\ detectPulse(resetClockIn[i], s0.prevResetPulse)
      s1 == IF resetHit THEN resetDrumSequence(s0) ELSE s0
      s2 == IF resetClockIn # NoChannel
            THEN [s1 EXCEPT !.prevResetPulse = resetClockIn[i]] ELSE s1
      stepHit == /\ stepClockIn # NoChannel
                 /\ detectPulse(stepClockIn[i], s2.prevStepPulse)
      perStep == IF s2.samplesSinceLastPulse > 0
                 THEN Rat(s2.samplesSinceLastPulse, newDivision)
                 ELSE s2.samplesPerDrumStep
      s3 == IF stepHit
            THEN [s2 EXCEPT !.samplesPerDrumStep = perStep,
                            !.samplesSinceLastPulse = 0,
                            !.nextStepAt = perStep,
                            !.currentStep = advanceDrumStep(@)]
            ELSE s2
      s4 == IF stepClockIn # NoChannel
            THEN [s3 EXCEPT !.prevStepPulse = stepClockIn[i]] ELSE s3
      subdivided == /\ ~(resetHit \/ stepHit)
                    /\ s4.samplesPerDrumStep.n > 0
                    /\ RatLt(s4.nextStepAt, RatInt(s4.samplesSinceLastPulse))
      s5 == IF subdivided
            THEN [s4 EXCEPT !.currentStep = advanceDrumStep(@),
                            !.nextStepAt = RatAdd(@, s4.samplesPerDrumStep)]
            ELSE s4
  IN  [state |-> s5, shouldTrigger |-> resetHit \/ stepHit \/ subdivided,
       resetHit |-> resetHit, stepHit |-> stepHit, subdivided |-> subdivided]

\* One iteration of the sample loop of process(): the record after sample i,
\* with shouldTrigger and the three tests that can set it (subdivided: the
\* internal subdivision fired).
drumSample(st, stepClockIn, resetClockIn, i, newDivision) ==
  LET s0 == [st EXCEPT !.samplesSinceLastPulse = @ + 1]
      resetHit == /\ resetClockIn # NoChannel
                  /\ detectPulse(resetClockIn[i], s0.prevResetPulse)
      s1 == IF resetHit THEN resetDrumSequence(s0) ELSE s0
      s2 == IF resetClockIn # NoChannel
            THEN [s1 EXCEPT !.prevResetPulse = resetClockIn[i]] ELSE s1
      stepHit == /\ stepClockIn # NoChannel
                 /\ detectPulse(stepClockIn[i], s2.prevStepPulse)
      perStep == IF s2.samplesSinceLastPulse > 0
                 THEN Rat(s2.samplesSinceLastPulse, newDivision)
                 ELSE s2.samplesPerDrumStep
      s3 == IF stepHit
            THEN [s2 EXCEPT !.samplesPerDrumStep = perStep,
                            !.samplesSinceLastPulse = 0,
                            !.nextStepAt = perStep,
                            !.currentStep = advanceDrumStep(@)]
            ELSE s2
      s4 == IF stepClockIn # NoChannel
            THEN [s3 EXCEPT !.prevStepPulse = stepClockIn[i]] ELSE s3
      subdivided == /\ ~(resetHit \/ stepHit)
                    /\ s4.samplesPerDrumStep.n > 0
                    /\ RatLe(s4.nextStepAt, RatInt(s4.samplesSinceLastPulse))
      s5 == IF subdivided
            THEN [s4 EXCEPT !.currentStep = advanceDrumStep(@),
                            !.nextStepAt = RatAdd(@, s4.samplesPerDrumStep)]
            ELSE s4
  IN  [state |-> s5, shouldTrigger |-> resetHit \/ stepHit \/ subdivided,
       resetHit |-> resetHit, stepHit |-> stepHit, subdivided |-> subdivided]

\* `pattern[this.currentStep]` (arrays count from 0, sequences from 1)
PatternAt(pattern, step) == pattern[step + 1]

\* The sample loop of process() from sample i on: the final timing record,
\* the samples written to the three channels, and what happened on each
\* sample.
RECURSIVE drumLoop(_, _, _, _, _, _)
drumLoop(st, stepClockIn, resetClockIn, i, newDivision, outs) ==
  IF i > BlockLen THEN [state |-> st, outs |-> outs]
  ELSE LET r == drumSample(st, stepClockIn, resetClockIn, i, newDivision)
           c == r.state.currentStep
           o == IF r.shouldTrigger
                THEN <<PatternAt(kickPattern, c), PatternAt(snarePattern, c),
                       PatternAt(hatPattern, c)>>
                ELSE <<0, 0, 0>>
       IN  drumLoop(r.state, stepClockIn, resetClockIn, i + 1, newDivision,
                    [kick |-> Append(outs.kick, o[1]),
                     snare |-> Append(outs.snare, o[2]),
                     hat |-> Append(outs.hat, o[3]),
                     events |-> Append(outs.events,
                                       [reset |-> r.resetHit, step |-> r.stepHit,
                                        sub |-> r.subdivided, cursor |-> c])])

\* Math.max(1, Math.min(16, Math.round(parameters.clockDivision[0]))), on an
\* integer parameter value
clampDivision(param) == Max2(1, Min2(16, param))

\* process() as a function of the timing record and its arguments
drumProcess(st, stepClockIn, resetClockIn, divisionParam) ==
  drumLoop(st, stepClockIn, resetClockIn, 1, clampDivision(divisionParam),
           [kick |-> << >>, snare |-> << >>, hat |-> << >>, events |-> << >>])

RECURSIVE SeqsOf(_, _)
SeqsOf(S, n) ==
  IF n = 0 THEN {<< >>}
  ELSE {Append(q, x) : q \in SeqsOf(S, n - 1), x \in S}

\* a pulse channel: missing, or BlockLen samples, each low or high
PulseChannels == {NoChannel} \cup SeqsOf(PulseLevels, BlockLen)

\* values of the clockDivision parameter: below and inside 1..16
DivisionInputs == {0, 2}

SwingInputs == {RatInt(0), Rat(1, 2)}

EmptyPattern == [k \in 1..NumSteps |-> 0]

Silence == [k \in 1..BlockLen |-> 0]

DrumInit ==
  /\ prevStepPulse = 0
  /\ prevResetPulse = 0
  /\ samplesSinceLastPulse = 0
  /\ samplesPerDrumStep = RatInt(0)
  /\ nextStepAt = RatInt(0)
  /\ currentStep = 0
  /\ swingAmount = RatInt(0)
  /\ kickPattern = EmptyPattern
  /\ snarePattern = EmptyPattern
  /\ hatPattern = EmptyPattern
  /\ kickOut = Silence
  /\ snareOut = Silence
  /\ hatOut = Silence
  /\ drumEvents = << >>

DrumProcess ==
  \E stepClockIn \in PulseChannels, resetClockIn \in PulseChannels,
     divisionParam \in DivisionInputs, swing \in SwingInputs :
    \E r \in {drumProcess(DrumState, stepClockIn, resetClockIn, divisionParam)} :
        /\ r.state.samplesSinceLastPulse <= MaxGap
        /\ swingAmount' = swing
        /\ prevStepPulse' = r.state.prevStepPulse
        /\ prevResetPulse' = r.state.prevResetPulse
        /\ samplesSinceLastPulse' = r.state.samplesSinceLastPulse
        /\ samplesPerDrumStep' = r.state.samplesPerDrumStep
        /\ nextStepAt' = r.state.nextStepAt
        /\ currentStep' = r.state.currentStep
        /\ kickOut' = r.outs.kick
        /\ snareOut' = r.outs.snare
        /\ hatOut' = r.outs.hat
        /\ drumEvents' = r.outs.events
        /\ UNCHANGED <<drumPatterns, notDrum>>

\* the voices the controller names: two real ones and an unknown one
MsgVoices == {"kick", "hat", "tom"}

MsgSteps == {0}

\* `pattern[step] = value ? 1 : 0`.  A step inside the array replaces the
\* entry; a step at or past the end grows the array to step + 1 entries, the
\* ones between being empty slots (-1 here); a negative step sets a property
\* of the array object and no entry.
SetPatternStep(pattern, step, value) ==
  LET v == IF value THEN 1 ELSE 0
  IN  IF step < 0 THEN pattern
      ELSE IF step < Len(pattern) THEN [pattern EXCEPT ![step + 1] = v]
      ELSE [k \in 1..(step + 1) |->
              IF k <= Len(pattern) THEN pattern[k]
              ELSE IF k = step + 1 THEN v ELSE -1]

\* `pattern.fill(0)`
fillZero(pattern) == [k \in 1..Len(pattern) |-> 0]

\* a variant of SetStep that takes every voice other than kick and snare for
\* the hat (sensitivity of PatternsChangedOnlyByMessages)
SetStepElseHat(voice, step, value) ==
  /\ kickPattern' = IF voice = "kick"
                    THEN SetPatternStep(kickPattern, step, value)
                    ELSE kickPattern
  /\ snarePattern' = IF voice = "snare"
                     THEN SetPatternStep(snarePattern, step, value)
                     ELSE snarePattern
  /\ hatPattern' = IF voice \notin {"kick", "snare"}
                   THEN SetPatternStep(hatPattern, step, value)
                   ELSE hatPattern
  /\ UNCHANGED <<drumTiming, drumOuts>>

\* port.onmessage, type 'setStep'
SetStep(voice, step, value) ==
  /\ kickPattern' = IF voice = "kick"
                    THEN SetPatternStep(kickPattern, step, value)
                    ELSE kickPattern
  /\ snarePattern' = IF voice = "snare"
                     THEN SetPatternStep(snarePattern, step, value)
                     ELSE snarePattern
  /\ hatPattern' = IF voice = "hat"
                   THEN SetPatternStep(hatPattern, step, value)
                   ELSE hatPattern
  /\ UNCHANGED <<drumTiming, drumOuts>>

DrumSetStep ==
  \E voice \in MsgVoices, step \in MsgSteps, value \in BOOLEAN :
    SetStep(voice, step, value) /\ UNCHANGED notDrum

\* port.onmessage, type 'clearPattern'
ClearPattern(voice) ==
  /\ kickPattern' = IF voice \in {"kick", "all"} THEN fillZero(kickPattern)
                    ELSE kickPattern
  /\ snarePattern' = IF voice \in {"snare", "all"} THEN fillZero(snarePattern)
                     ELSE snarePattern
  /\ hatPattern' = IF voice \in {"hat", "all"} THEN fillZero(hatPattern)
                   ELSE hatPattern
  /\ UNCHANGED <<drumTiming, drumOuts>>

DrumClearPattern ==
  \E voice \in MsgVoices \cup {"all"} : ClearPattern(voice) /\ UNCHANGED notDrum

DrumNext == DrumProcess \/ DrumSetStep \/ DrumClearPattern

\* the whole of port.onmessage: a message of another type does nothing
OnMessage(type, voice, step, value) ==
  IF type = "setStep" THEN SetStep(voice, step, value)
  ELSE IF type = "clearPattern" THEN ClearPattern(voice)
  ELSE UNCHANGED drumVars

\* the types a message can have: the two the handler knows and another one
AnyTypes == {"setStep", "clearPattern", "setSwing"}

\* the voices a message can name: one of the three, 'all' and an unknown one
AnyVoices == {"kick", "all", "tom"}

\* the steps a message can name: before the array, inside it, just past it
AnySteps == {-1, 0, NumSteps}

\* a message of any type and voice arrives, its step drawn from Steps
OnMessageWith(Steps) ==
  \E type \in AnyTypes, voice \in AnyVoices, step \in Steps,
     value \in BOOLEAN :
    OnMessage(type, voice, step, value) /\ UNCHANGED notDrum

\* any message at all arrives
DrumOnMessage == OnMessageWith(AnySteps)

MsgNext == DrumProcess \/ DrumOnMessage

\* a message arrives whose step, if it has one, is inside the array
DrumOnStepMessage == OnMessageWith(MsgSteps)

VoicesNext == DrumProcess \/ DrumOnStepMessage

----------------------------------------------------------------------------
(* The drum sequencer under a steady step clock: one high sample every P    *)
(* samples, a constant clockDivision and no reset pulse.                    *)

\* the longest clock period, in samples
MaxPeriod == 16

\* pulses followed in one run
MaxPulses == 4

\* the step-clock channel of one block that starts at place pos of the period
ClockChannel(pos, period) ==
  [i \in 1..BlockLen |-> IF (pos + i - 1) % period = 0 THEN 10 ELSE 0]

\* what one sample adds to the count: e is the sample's event and prev the
\* cursor before it
seenSample(seen, prev, e) ==
  LET moved == (e.cursor - prev + NumSteps) % NumSteps
  IN  IF e.step
      THEN [pulses |-> seen.pulses + 1, steps |-> moved, last |-> seen.steps,
            onPulse |-> moved]
      ELSE [seen EXCEPT !.steps = @ + moved]

RECURSIVE seenBlock(_, _, _, _)
seenBlock(seen, prev, events, i) ==
  IF i > Len(events) THEN seen
  ELSE seenBlock(seenSample(seen, prev, events[i]), events[i].cursor, events,
                 i + 1)

ClkIdle ==
  /\ clk = [on |-> FALSE]
  /\ clkSeen = [pulses |-> 0, steps |-> 0, last |-> 0, onPulse |-> 0]

\* a clock of any period and any division up to it, started anywhere in its
\* period
ClkInit ==
  /\ \E period \in 2..MaxPeriod :
       \E division \in 1..Min2(16, period), pos \in 0..(period - 1) :
         clk = [on |-> TRUE, period |-> period, division |-> division,
                pos |-> pos]
  /\ clkSeen = [pulses |-> 0, steps |-> 0, last |-> 0, onPulse |-> 0]

\* one process() call under the clock
ClkProcess ==
  /\ clk.on
  /\ clkSeen.pulses < MaxPulses
  /\ \E resetClockIn \in {NoChannel, Silence} :
       \E r \in {drumProcess(DrumState, ClockChannel(clk.pos, clk.period),
                             resetClockIn, clk.division)} :
         /\ swingAmount' = RatInt(0)
         /\ prevStepPulse' = r.state.prevStepPulse
         /\ prevResetPulse' = r.state.prevResetPulse
         /\ samplesSinceLastPulse' = r.state.samplesSinceLastPulse
         /\ samplesPerDrumStep' = r.state.samplesPerDrumStep
         /\ nextStepAt' = r.state.nextStepAt
         /\ currentStep' = r.state.currentStep
         /\ kickOut' = r.outs.kick
         /\ snareOut' = r.outs.snare
         /\ hatOut' = r.outs.hat
         /\ drumEvents' = r.outs.events
         /\ clkSeen' = seenBlock(clkSeen, currentStep, r.outs.events, 1)
  /\ clk' = [clk EXCEPT !.pos = (@ + BlockLen) % clk.period]
  /\ UNCHANGED notClk

ClkNext == ClkProcess

----------------------------------------------------------------------------
(* Slope generator, one channel.                                            *)
(* Version A is src/just-friends-processor.js, version B the processor at   *)
(* the top of src/unnamed/part_000.  A channel's index only enters through  *)
(* its frequency, which is an input here (the knob, CV, INTONE and FM       *)
(* arithmetic of process() is not part of this section).                    *)

\* half the number of grid points of a cycle: phase, ramp and curve are
\* integers in 1/PhaseDen
PhaseRes == 4

PhaseDen == 2 * PhaseRes

\* 0.5 on the grid
Half == PhaseRes

\* x < 0.001 for a grid number x
Tiny(x) == 1000 * x < PhaseDen

\* trigger samples are in tenths: the thresholds 0.1 (A) and 0.5 (B)
TrigThreshold == 1

TrigThresholdB == 5

IsShape(range) == 2 * range < 1

\* version A
detectTrigger(current, last) == current > TrigThreshold /\ last <= TrigThreshold

\* a variant of applyRamp whose falling branch measures the fall from phase 0
\* and not from riseTime (sensitivity of Scenario1Envelope)
applyRampNoOffset(phase, ramp, state) ==
  LET riseTime == PhaseDen - ramp
      fallTime == ramp
  IN  IF state = "rising"
      THEN (IF Tiny(riseTime) THEN RatInt(1)
            ELSE RatMin(RatInt(1), Rat(phase, riseTime)))
      ELSE IF state = "falling"
      THEN (IF Tiny(fallTime) THEN RatInt(0)
            ELSE RatMax(RatInt(0), RatSub(RatInt(1), Rat(phase, fallTime))))
      ELSE RatInt(0)

\* version A; the result is a fraction
applyRamp(phase, ramp, state) ==
  LET riseTime == PhaseDen - ramp
      fallTime == ramp
  IN  IF state = "rising"
      THEN (IF Tiny(riseTime) THEN RatInt(1)
            ELSE RatMin(RatInt(1), Rat(phase, riseTime)))
      ELSE IF state = "falling"
      THEN (IF Tiny(fallTime) THEN RatInt(0)
            ELSE RatMax(RatInt(0),
                        RatSub(RatInt(1), Rat(phase - riseTime, fallTime))))
      ELSE RatInt(0)

\* version A, for the two settings whose result is rational: linear at noon
\* and square fully counter-clockwise (the power-law and sine shapes are not
\* modelled)
applyCurve(linearValue, curve) ==
  CASE Tiny(Abs(curve - Half)) -> linearValue
    [] curve < Half /\ 100 * ((Half - curve) * 2) > 99 * PhaseDen ->
         IF RatLt(Rat(1, 2), linearValue) THEN RatInt(1) ELSE RatInt(0)

\* `curvedValue * 8.0` or `(curvedValue * 2.0 - 1.0) * 5.0`
scaleValue(curvedValue, range) ==
  IF IsShape(range) THEN RatMul(curvedValue, RatInt(8))
  ELSE RatMul(RatSub(RatMul(curvedValue, RatInt(2)), RatInt(1)), RatInt(5))

restValue(range) == IF IsShape(range) THEN RatInt(0) ELSE RatInt(-5)

maxValue(range) == IF IsShape(range) THEN RatInt(8) ELSE RatInt(5)

shapedValue(phase, ramp, curve, range, state) ==
  scaleValue(applyCurve(applyRamp(phase, ramp, state), curve), range)

\* version A.  slope.frequency is in units of sampleRate / PhaseDen, so that
\* phaseIncrement is slope.frequency grid points.
updateSlope(sl, mode, ramp, curve, range) ==
  LET phaseIncrement == sl.frequency
      riseTime == PhaseDen - ramp
      stepped == sl.phase + phaseIncrement
      fall == IF stepped >= PhaseDen
              THEN [sl EXCEPT !.state = "idle", !.phase = 0,
                              !.value = restValue(range)]
              ELSE [sl EXCEPT !.phase = stepped,
                              !.value = shapedValue(stepped, ramp, curve, range,
                                                    "falling")]
  IN  IF mode = 2
      THEN LET ph == IF stepped >= PhaseDen THEN stepped - PhaseDen ELSE stepped
               st == IF ph < riseTime THEN "rising" ELSE "falling"
           IN  [sl EXCEPT !.phase = ph, !.state = st,
                          !.value = shapedValue(ph, ramp, curve, range, st)]
      ELSE IF mode = 0
      THEN (IF sl.state = "rising"
            THEN LET over == stepped >= riseTime
                     st == IF over THEN "falling" ELSE "rising"
                     ph == IF over THEN riseTime ELSE stepped
                 IN  [sl EXCEPT !.phase = ph, !.state = st,
                                !.value = shapedValue(ph, ramp, curve, range, st)]
            ELSE IF sl.state = "falling" THEN fall
            ELSE [sl EXCEPT !.value = restValue(range)])
      ELSE IF mode = 1
      THEN (IF sl.state = "rising"
            THEN (IF stepped >= riseTime
                  THEN [sl EXCEPT !.phase = stepped, !.state = "sustaining",
                                  !.value = maxValue(range)]
                  ELSE [sl EXCEPT !.phase = stepped,
                                  !.value = shapedValue(stepped, ramp, curve,
                                                        range, "rising")])
            ELSE IF sl.state = "sustaining"
            THEN [sl EXCEPT !.value = maxValue(range)]
            ELSE IF sl.state = "falling" THEN fall
            ELSE [sl EXCEPT !.value = restValue(range)])
      ELSE sl

\* a variant of handleTrigger that restarts the envelope on every trigger in
\* transient mode (sensitivity of TransientTriggerIgnored)
handleTriggerRetrigger(sl, mode, gateHigh) ==
  IF mode = 0 /\ gateHigh THEN [sl EXCEPT !.state = "rising", !.phase = 0]
  ELSE sl

\* version A
handleTrigger(sl, mode, gateHigh) ==
  IF mode = 2
  THEN (IF ~gateHigh THEN sl ELSE [sl EXCEPT !.phase = 0])
  ELSE IF mode = 0
  THEN (IF ~gateHigh THEN sl
        ELSE IF sl.state = "idle"
        THEN [sl EXCEPT !.state = "rising", !.phase = 0]
        ELSE sl)
  ELSE IF mode = 1
  THEN (IF gateHigh
        THEN (IF sl.state = "idle" \/ sl.state = "falling"
              \* `slope.state = 'rising'` comes first, so the test
              \* `slope.state === 'idle'` that guards `slope.phase = 0` is
              \* never true
              THEN [sl EXCEPT !.state = "rising"]
              ELSE sl)
        ELSE (IF sl.state = "rising" \/ sl.state = "sustaining"
              THEN [sl EXCEPT !.state = "falling"]
              ELSE sl))
  ELSE sl

\* Version A, the body of the channel loop of process() for one sample, after
\* slope.frequency is set: whether the trigger had a rising edge, the slope
\* at the end of the sample, lastTriggers[i] and the output sample.
jfSampleA(sl, last, frequency, triggerSignal, mode, ramp, curve, range) ==
  LET s0 == [sl EXCEPT !.frequency = frequency]
      triggerHigh == triggerSignal > TrigThreshold
      triggered == detectTrigger(triggerSignal, last)
      s1 == IF triggered \/ (mode = 1 /\ triggerHigh # (s0.lastTriggerState > 0))
            THEN handleTrigger(s0, mode, triggerHigh)
            ELSE s0
      s2 == [s1 EXCEPT !.lastTriggerState = IF triggerHigh THEN 1 ELSE 0]
      s3 == updateSlope(s2, mode, ramp, curve, range)
  IN  [edge |-> triggered, slope |-> s3, lastTriggers |-> triggerSignal,
       out |-> RatDiv(s3.value, RatInt(5))]

\* version B: riseTime = 0.01 + ramp * 0.98, fallTime = 1.0 - riseTime
getRiseFallBalance(ramp) ==
  LET riseTime == Rat(PhaseDen + 98 * ramp, 100 * PhaseDen)
  IN  [riseTime |-> riseTime, fallTime |-> RatSub(RatInt(1), riseTime)]

\* version B, for the same two settings: at curve = 0.5 the exponent is 1, at
\* curve = 0 the shape is rectangular
applyCurveB(phase, curve) ==
  CASE curve = Half -> phase
    [] curve < Half /\ 100 * ((Half - curve) * 2) > 99 * PhaseDen ->
         IF RatLt(Rat(1, 1000), phase) THEN RatInt(1) ELSE RatInt(0)

\* version B: the phase runs up to 1 and back down to 0
processSlope(sl, speed, ramp, curve, mode, triggerIn, gateIn) ==
  LET bal == getRiseFallBalance(ramp)
      up(ph) == RatAdd(ph, RatDiv(speed, bal.riseTime))
      down(ph) == RatSub(ph, RatDiv(speed, bal.fallTime))
      one == RatInt(1)
      zero == RatInt(0)
      trigger == triggerIn > TrigThresholdB
      triggerRise == trigger /\ ~sl.prevTrigger
      moved ==
        IF mode = 0
        THEN LET a == [sl EXCEPT !.prevTrigger = trigger]
                 b == IF triggerRise /\ ~a.active
                      THEN [a EXCEPT !.active = TRUE, !.rising = TRUE,
                                     !.phase = zero]
                      ELSE a
             IN  IF ~b.active THEN b
                 ELSE IF b.rising
                 THEN (IF RatLe(one, up(b.phase))
                       THEN [b EXCEPT !.phase = one, !.rising = FALSE]
                       ELSE [b EXCEPT !.phase = up(b.phase)])
                 ELSE (IF RatLe(down(b.phase), zero)
                       THEN [b EXCEPT !.phase = zero, !.active = FALSE]
                       ELSE [b EXCEPT !.phase = down(b.phase)])
        ELSE IF mode = 1
        THEN LET gate == gateIn > TrigThresholdB
             IN  IF gate
                 THEN LET b == IF ~sl.active
                               THEN [sl EXCEPT !.active = TRUE, !.rising = TRUE]
                               ELSE sl
                      IN  IF b.rising
                          THEN [b EXCEPT !.phase = RatMin(one, up(b.phase))]
                          ELSE b
                 ELSE (IF sl.active
                       THEN (IF RatLe(down(sl.phase), zero)
                             THEN [sl EXCEPT !.rising = FALSE, !.phase = zero,
                                             !.active = FALSE]
                             ELSE [sl EXCEPT !.rising = FALSE,
                                             !.phase = down(sl.phase)])
                       ELSE sl)
        ELSE LET a == [sl EXCEPT !.prevTrigger = trigger]
                 b == IF triggerRise
                      THEN [a EXCEPT !.phase = zero, !.rising = TRUE]
                      ELSE a
                 c == [b EXCEPT !.active = TRUE]
             IN  IF c.rising
                 THEN (IF RatLe(one, up(c.phase))
                       THEN [c EXCEPT !.phase = one, !.rising = FALSE]
                       ELSE [c EXCEPT !.phase = up(c.phase)])
                 ELSE (IF RatLe(down(c.phase), zero)
                       THEN [c EXCEPT !.phase = zero, !.rising = TRUE]
                       ELSE [c EXCEPT !.phase = down(c.phase)])
      shaped == applyCurveB(RatMax(zero, RatMin(one, moved.phase)), curve)
  IN  [moved EXCEPT !.value = shaped]

\* Version B, the body of the channel loop of process() for one sample; the
\* speed is frequency / sampleRate, frequency in units of sampleRate / PhaseDen.
jfSampleB(sl, frequency, triggerIn, mode, ramp, curve, range) ==
  LET s1 == processSlope(sl, Rat(frequency, PhaseDen), ramp, curve, mode,
                         triggerIn, triggerIn)
  IN  [edge |-> triggerIn > TrigThresholdB /\ ~sl.prevTrigger,
       slope |-> s1, lastTriggers |-> 0,
       out |-> IF IsShape(range) THEN RatMul(s1.value, Rat(8, 5))
               ELSE RatSub(RatMul(s1.value, RatInt(2)), RatInt(1))]

jfSample(build, sl, last, frequency, trigChannel, mode, ramp, curve, range) ==
  LET triggerSignal == SampleOrZero(trigChannel, 1)
  IN  IF build = "A"
      THEN jfSampleA(sl, last, frequency, triggerSignal, mode, ramp, curve, range)
      ELSE jfSampleB(sl, frequency, triggerSignal, mode, ramp, curve, range)

\* a trigger channel of one sample, in tenths: low or high
TrigChannels == {<<0>>, <<10>>}

\* phase increments per sample
FreqInputs == {1, 3}

\* the fastest phase increment of the fixed-control scenarios
MaxFreq == 5

ModeInputs == {0, 1, 2}

RampInputs == {0, Half, PhaseDen}

CurveInputs == {0, Half}

RangeInputs == {0, 1}

\* before the first sample (mode, range and ramp at their defaults)
NoSample ==
  [ran |-> FALSE, mode |-> 2, range |-> 0, ramp |-> Half, trig |-> 0,
   edge |-> FALSE, was |-> "idle"]

\* the stage of a channel, in the words of version A
Stage(build, sl) ==
  IF build = "A" THEN sl.state
  ELSE IF ~sl.active THEN "idle"
  ELSE IF sl.rising THEN "rising" ELSE "falling"

\* The slope after construction.  Version A starts at `Math.random()`; its
\* initial frequency of 1.0 Hz is overwritten before it is read, and stands
\* here as one frequency unit.
JfInitA ==
  /\ jfBuild = "A"
  /\ slope \in {[phase |-> p, state |-> "idle", lastTriggerState |-> 0,
                 value |-> RatInt(0), frequency |-> 1] : p \in 0..(PhaseDen - 1)}
  /\ lastTriggers = 0
  /\ jfOut = RatInt(0)
  /\ jfObs = NoSample

JfInitB ==
  /\ jfBuild = "B"
  /\ slope = [phase |-> RatInt(0), value |-> RatInt(0), active |-> FALSE,
              rising |-> TRUE, prevTrigger |-> FALSE]
  /\ lastTriggers = 0
  /\ jfOut = RatInt(0)
  /\ jfObs = NoSample

JfInit == JfInitA \/ JfInitB

\* one sample of process(), with the controls drawn from the given sets
JfSampleWith(Freqs, Modes, Ramps, Curves, Ranges) ==
  \E frequency \in Freqs, trigChannel \in TrigChannels, mode \in Modes,
     ramp \in Ramps, curve \in Curves, range \in Ranges :
    \E r \in {jfSample(jfBuild, slope, lastTriggers, frequency, trigChannel,
                      mode, ramp, curve, range)} :
        /\ slope' = r.slope
        /\ lastTriggers' = r.lastTriggers
        /\ jfOut' = r.out
        /\ jfObs' = [ran |-> TRUE, mode |-> mode, range |-> range,
                     ramp |-> ramp, trig |-> SampleOrZero(trigChannel, 1),
                     edge |-> r.edge, was |-> Stage(jfBuild, slope)]
        /\ UNCHANGED <<jfBuild, notJf>>

JfSample == JfSampleWith(FreqInputs, ModeInputs, RampInputs, CurveInputs, RangeInputs)

JfNext == JfSample

----------------------------------------------------------------------------
(* Reading a control parameter.  parameters.<name> is a Float32Array of one  *)
(* value (the same for the whole block) or of one value per sample.         *)

\* samples per block in this section
ParBlockLen == 3

\* parameter values, in halves: 0, 0.5 and 1
ParValues == {0, 1, 2}

\* `arr[i] ?? arr[0]`: version A of the slope generator (i counts from 0)
readNullish(arr, i) == IF i < Len(arr) THEN arr[i + 1] ELSE arr[1]

\* `arr[i] || arr[0]`: the formant oscillator
readOr(arr, i) == IF i < Len(arr) /\ arr[i + 1] # 0 THEN arr[i + 1] ELSE arr[1]

\* `arr[0]`, read once before the sample loop: version B of the slope generator
readFirst(arr, i) == arr[1]

ParArrays == SeqsOf(ParValues, 1) \cup SeqsOf(ParValues, ParBlockLen)

ParInit ==
  /\ parArray \in ParArrays
  /\ parIndex = 0
  /\ parUsed = [jfA |-> 0, jfB |-> 0, mangrove |-> 0]

\* one iteration of the three sample loops
ParSample ==
  /\ parIndex < ParBlockLen
  /\ parIndex' = parIndex + 1
  /\ parUsed' = [jfA |-> readNullish(parArray, parIndex),
                 jfB |-> readFirst(parArray, parIndex),
                 mangrove |-> readOr(parArray, parIndex)]
  /\ UNCHANGED <<parArray, notPar>>

\* the next process() call, with a new parameter array
ParNewBlock ==
  /\ parIndex = ParBlockLen
  /\ parArray' \in ParArrays
  /\ parIndex' = 0
  /\ UNCHANGED <<parUsed, notPar>>

ParNext == ParSample \/ ParNewBlock

----------------------------------------------------------------------------
(* Slope generator, the INTONE frequency ratio of channel `index`.          *)

\* half the number of grid points of the INTONE knob: intone is an integer
\* in 1/IntoneDen
IntoneRes == 4

IntoneDen == 2 * IntoneRes

NumSlopes == 6

\* a variant of getIntoneRatio whose overtone side reaches only half way
\* (sensitivity of IntoneRatioExtremes)
getIntoneRatioHalfWay(index, intoneValue) ==
  IF intoneValue > IntoneRes
  THEN RatAdd(RatInt(1), Rat((index - 1) * (intoneValue - IntoneRes), IntoneDen))
  ELSE RatInt(1)

\* version A
getIntoneRatio(index, intoneValue) ==
  IF 1000 * Abs(intoneValue - IntoneRes) < IntoneDen THEN RatInt(1)
  ELSE IF intoneValue > IntoneRes
  THEN LET amount == Rat((intoneValue - IntoneRes) * 2, IntoneDen)
       IN  RatAdd(RatInt(1), RatMul(RatInt(index - 1), amount))
  ELSE LET amount == Rat((IntoneRes - intoneValue) * 2, IntoneDen)
       IN  RatDiv(RatInt(1),
                  RatAdd(RatInt(1), RatMul(RatInt(index - 1), amount)))

\* version B
calculateIntoneRatio(index, intone) ==
  IF index = 1 THEN RatInt(1)
  ELSE LET intoneAmount == Rat((intone - IntoneRes) * 2, IntoneDen)
       IN  IF intoneAmount.n >= 0
           THEN RatAdd(RatInt(1), RatMul(intoneAmount, RatInt(index - 1)))
           ELSE LET undertoneAmount == RatSub(RatInt(0), intoneAmount)
                IN  RatDiv(RatInt(1),
                           RatAdd(RatInt(1),
                                  RatMul(undertoneAmount, RatInt(index - 1))))

IntoneRatio(build, index, intone) ==
  IF build = "A" THEN getIntoneRatio(index, intone)
  ELSE calculateIntoneRatio(index, intone)

\* no ratio has been computed yet
RatioIdle == ratioObs = [ran |-> FALSE, index |-> 1, intone |-> IntoneRes,
                         ratio |-> RatInt(1)]

\* one call, for some channel and some INTONE value
RatioCall ==
  \E index \in 1..NumSlopes, intone \in 0..IntoneDen :
    /\ ratioObs' = [ran |-> TRUE, index |-> index, intone |-> intone,
                    ratio |-> IntoneRatio(jfBuild, index, intone)]
    /\ UNCHANGED <<main, threadVars, eqVars, fxVars>>

RatioNext == RatioCall

----------------------------------------------------------------------------
(* The worklet thread.  The main thread posts messages at any time; the      *)
(* worklet's event loop runs one callback at a time to its end: process()   *)
(* is a plain synchronous method (no await, no yield), and so are the two   *)
(* onmessage handlers.  The two processors' blocks are rendered in the same *)
(* quantum, so one sample counter stands for both loops.                    *)

\* samples per block in this section
ThreadBlockLen == 2

\* messages a port holds at most
MaxInbox == 1

MaskMessages == {MaskOf({0}), MajorScale}

PatternMessages ==
  {[type |-> "setStep", voice |-> "kick", step |-> 0, value |-> TRUE],
   [type |-> "setStep", voice |-> "hat", step |-> 0, value |-> TRUE],
   [type |-> "clearPattern", voice |-> "all", step |-> 0, value |-> FALSE]}

\* a variant of CanRunHandler that lets a handler run in the middle of a
\* block (sensitivity of UpdatesBetweenBlocks)
CanRunHandlerAnytime(sample) == TRUE

\* a callback starts only when no process() call is running
CanRunHandler(sample) == sample = 0

ThreadIdle ==
  /\ maskInbox = << >>
  /\ patternInbox = << >>
  /\ blkSample = 0
  /\ blkUsed = << >>

\* node.port.postMessage({type: 'noteMask', ...}) on the main thread
PostMask ==
  /\ Len(maskInbox) < MaxInbox
  /\ \E m \in MaskMessages : maskInbox' = Append(maskInbox, m)
  /\ UNCHANGED <<patternInbox, blkSample, blkUsed, notThread>>

\* node.port.postMessage({type: 'setStep' | 'clearPattern', ...})
PostPattern ==
  /\ Len(patternInbox) < MaxInbox
  /\ \E m \in PatternMessages : patternInbox' = Append(patternInbox, m)
  /\ UNCHANGED <<maskInbox, blkSample, blkUsed, notThread>>

\* the quantizer's port.onmessage runs on the oldest message
HandleMask ==
  /\ CanRunHandler(blkSample)
  /\ maskInbox # << >>
  /\ SetNoteMask(Head(maskInbox))
  /\ maskInbox' = Tail(maskInbox)
  /\ UNCHANGED <<patternInbox, blkSample, blkUsed, drumVars, notMain>>

\* the sequencer's port.onmessage runs on the oldest message
HandlePattern ==
  /\ CanRunHandler(blkSample)
  /\ patternInbox # << >>
  /\ LET m == Head(patternInbox)
     IN  IF m.type = "setStep" THEN SetStep(m.voice, m.step, m.value)
         ELSE ClearPattern(m.voice)
  /\ patternInbox' = Tail(patternInbox)
  /\ UNCHANGED <<maskInbox, blkSample, blkUsed, qVars, notMain>>

\* process() is entered
BlockStart ==
  /\ blkSample = 0
  /\ blkSample' = 1
  /\ blkUsed' = << >>
  /\ UNCHANGED <<maskInbox, patternInbox, notThread>>

\* one iteration of the sample loops: the quantizer reads this.noteMask, the
\* sequencer reads the three patterns; after the last one process() returns
BlockSample ==
  /\ blkSample > 0
  /\ blkUsed' = Append(blkUsed, [mask |-> noteMask, kick |-> kickPattern,
                                 snare |-> snarePattern, hat |-> hatPattern])
  /\ blkSample' = IF blkSample = ThreadBlockLen THEN 0 ELSE blkSample + 1
  /\ UNCHANGED <<maskInbox, patternInbox, notThread>>

ThreadNext ==
  \/ PostMask
  \/ PostPattern
  \/ HandleMask
  \/ HandlePattern
  \/ BlockStart
  \/ BlockSample

----------------------------------------------------------------------------
(* DJEqualizer (src/DJEqualizer.js).  An AudioParam is modelled by the       *)
(* target of the last setTargetAtTime scheduled on it, which is the value   *)
(* it settles at.                                                           *)

Bands == {"low", "mid", "high"}

\* band gains in dB
EqGains == {0, 6}

\* the constructor: filter gains 0 dB, gain nodes 1, nothing killed
EqInit ==
  /\ eq = [b \in Bands |-> [amount |-> 0, killed |-> FALSE, filterGain |-> 0,
                            nodeGain |-> 1]]
  /\ eqLast = "new"

\* setLowGain / setMidGain / setHighGain on the record of the three bands
setGain(e, b, gainDB) ==
  [e EXCEPT ![b] = IF ~@.killed
                   THEN [@ EXCEPT !.amount = gainDB, !.filterGain = gainDB]
                   ELSE [@ EXCEPT !.amount = gainDB]]

\* setLowKill / setMidKill / setHighKill
setKill(e, b, kill) ==
  [e EXCEPT ![b] = [@ EXCEPT !.killed = kill,
                             !.nodeGain = IF kill THEN 0 ELSE 1]]

\* reset(): the three gain setters, then the three kill setters
reset(e) ==
  setKill(setKill(setKill(setGain(setGain(setGain(e, "low", 0), "mid", 0),
                                  "high", 0),
                          "low", FALSE),
                  "mid", FALSE),
          "high", FALSE)

\* getState(): the gain and the kill switch it reports for each band
getState(e) == [b \in Bands |-> [gain |-> e[b].amount, killed |-> e[b].killed]]

EqSetGain ==
  \E b \in Bands, gainDB \in EqGains :
    /\ eq' = setGain(eq, b, gainDB)
    /\ eqLast' = "setGain"
    /\ UNCHANGED notEq

EqSetKill ==
  \E b \in Bands, kill \in BOOLEAN :
    /\ eq' = setKill(eq, b, kill)
    /\ eqLast' = "setKill"
    /\ UNCHANGED notEq

EqReset ==
  /\ eq' = reset(eq)
  /\ eqLast' = "reset"
  /\ UNCHANGED notEq

EqNext == EqSetGain \/ EqSetKill \/ EqReset

----------------------------------------------------------------------------
(* SaturationEffect (src/unnamed/part_001).  The shaper's curve is kept as   *)
(* what determines its 2048 points: the formula the switch of updateCurve   *)
(* selected and the pre-gain, bias and harmonics it was computed with.      *)

validModes == {"tape", "triode", "pentode", "transformer"}

validHarmonics == {"even", "odd", "both"}

\* mode strings a caller passes; "" stands for a missing or empty option
ModeStrings == validModes \cup {"fuzz"}

ModeOptions == ModeStrings \cup {""}

HarmonicsStrings == validHarmonics \cup {"loud"}

\* drive, bias and mix values a caller passes
SatAmounts == {RatInt(-2), RatInt(0), Rat(1, 2), RatInt(2)}

\* updateCurve(): the switch on this.mode, with y = x as its default
updateCurve(s) ==
  [s EXCEPT !.curve =
     [formula |-> CASE s.mode = "tape" -> "tape"
                    [] s.mode = "triode" -> "triode"
                    [] s.mode = "pentode" -> "pentode"
                    [] s.mode = "transformer" -> "transformer"
                    [] OTHER -> "identity",
      preGain |-> RatAdd(RatInt(1), RatMul(s.drive, RatInt(19))),
      bias |-> s.bias,
      harmonics |-> s.harmonics]]

\* new SaturationEffect(ctx, {mode}): options.mode || 'tape'
SatNew(mode) ==
  updateCurve([mode |-> IF mode = "" THEN "tape" ELSE mode,
               drive |-> RatInt(0),
               bias |-> RatInt(0),
               mix |-> RatInt(1),
               harmonics |-> "even",
               curve |-> << >>])

setMode(s, mode) ==
  updateCurve([s EXCEPT !.mode = IF mode \notin validModes THEN "tape"
                                 ELSE mode])

setDrive(s, drive) ==
  updateCurve([s EXCEPT !.drive = RatMax(RatInt(0), RatMin(RatInt(1), drive))])

setBias(s, bias) ==
  updateCurve([s EXCEPT !.bias = RatMax(RatInt(-1), RatMin(RatInt(1), bias))])

setMix(s, mix) ==
  [s EXCEPT !.mix = RatMax(RatInt(0), RatMin(RatInt(1), mix))]

setHarmonics(s, harmonics) ==
  updateCurve([s EXCEPT !.harmonics = IF harmonics \notin validHarmonics
                                      THEN "even" ELSE harmonics])

\* reset(): the five setters with the default values
satReset(s) ==
  setHarmonics(setMix(setBias(setDrive(setMode(s, "tape"), RatInt(0)),
                              RatInt(0)),
                      RatInt(1)),
               "even")

\* constructed with any mode option
SatInit ==
  \E mode \in ModeOptions :
    /\ sat = SatNew(mode)
    /\ satAsked = mode
    /\ satLast = "new"

\* constructed with no option
SatIdle ==
  /\ sat = SatNew("")
  /\ satAsked = ""
  /\ satLast = "new"

SatSetMode ==
  \E mode \in ModeStrings :
    /\ sat' = setMode(sat, mode)
    /\ satAsked' = mode
    /\ satLast' = "setMode"
    /\ UNCHANGED notSat

SatSetDrive ==
  \E drive \in SatAmounts :
    /\ sat' = setDrive(sat, drive)
    /\ satLast' = "setDrive"
    /\ UNCHANGED <<satAsked, notSat>>

SatSetBias ==
  \E bias \in SatAmounts :
    /\ sat' = setBias(sat, bias)
    /\ satLast' = "setBias"
    /\ UNCHANGED <<satAsked, notSat>>

SatSetMix ==
  \E mix \in SatAmounts :
    /\ sat' = setMix(sat, mix)
    /\ satLast' = "setMix"
    /\ UNCHANGED <<satAsked, notSat>>

SatSetHarmonics ==
  \E harmonics \in HarmonicsStrings :
    /\ sat' = setHarmonics(sat, harmonics)
    /\ satLast' = "setHarmonics"
    /\ UNCHANGED <<satAsked, notSat>>

SatReset ==
  /\ sat' = satReset(sat)
  /\ satAsked' = "tape"
  /\ satLast' = "reset"
  /\ UNCHANGED notSat

SatNext ==
  \/ SatSetMode
  \/ SatSetDrive
  \/ SatSetBias
  \/ SatSetMix
  \/ SatSetHarmonics
  \/ SatReset

----------------------------------------------------------------------------
(* Filter bank (src/unnamed/part_002): the cutoffs of one sample.  Knobs    *)
(* and frequencies are exact fractions; the FM input is in volts and takes  *)
(* the values at which 2^(fmAmount / 12) is rational.                       *)

RECURSIVE Pow2(_)
\* Math.pow(2, k) for an integer k
Pow2(k) ==
  IF k = 0 THEN RatInt(1)
  ELSE IF k > 0 THEN RatMul(RatInt(2), Pow2(k - 1))
  ELSE RatDiv(Pow2(k + 1), RatInt(2))

RatAbs(x) == [n |-> Abs(x.n), d |-> x.d]

\* the whole number a fraction is
Whole(x) == x.n \div x.d

freqKnobToHz(knob) ==
  LET octaves == RatMul(RatSub(knob, Rat(1, 2)), RatInt(8))
  IN  RatMul(RatInt(500), Pow2(Whole(octaves)))

\* process(), from the knobs to cfLow, cfHigh and cfCentre
cutoffs(freqKnob, spanKnob, fmSample, fmDepth) ==
  LET baseFreqHz == freqKnobToHz(freqKnob)
      fmAmount == fmSample * fmDepth * 2
      fmMultiplier == Pow2(fmAmount \div 12)
      modulatedFreq == RatMul(baseFreqHz, fmMultiplier)
      spanAmount == RatMul(RatSub(spanKnob, Rat(1, 2)), RatInt(2))
      spanHz == RatMul(modulatedFreq, spanAmount)
  IN  [cfCentre |-> modulatedFreq,
       cfLow |-> RatMax(RatInt(20), RatSub(modulatedFreq, RatAbs(spanHz))),
       cfHigh |-> RatMin(RatInt(20000), RatAdd(modulatedFreq, RatAbs(spanHz)))]

\* processCentreBlock(): the output taken from each of its two filters and
\* the cutoff each runs at
centreStages(cfLow, cfHigh, cfCentre, mode) ==
  IF mode = 0
  THEN <<[take |-> "hp", cutoff |-> cfLow], [take |-> "lp", cutoff |-> cfHigh]>>
  ELSE <<[take |-> "hp", cutoff |-> cfCentre],
         [take |-> "lp", cutoff |-> cfCentre]>>

\* FREQ in eighths of a turn, SPAN in quarters
FreqKnobs == {Rat(k, 8) : k \in 0..8}

SpanKnobs == {Rat(k, 4) : k \in 0..4}

\* FM input in volts and FM depth
FmSamples == {-6, 0, 6}

FmDepths == {0, 1}

\* 0 = crossover, 1 = formant
TsModes == {0, 1}

TsIdle == tsObs = [ran |-> FALSE]

TsSample ==
  \E freqKnob \in FreqKnobs, spanKnob \in SpanKnobs, fmSample \in FmSamples,
     fmDepth \in FmDepths, mode \in TsModes :
    \E c \in {cutoffs(freqKnob, spanKnob, fmSample, fmDepth)} :
      /\ tsObs' = [ran |-> TRUE, freq |-> freqKnob, span |-> spanKnob,
                   fm |-> fmSample * fmDepth, mode |-> mode,
                   cfLow |-> c.cfLow, cfHigh |-> c.cfHigh,
                   centre |-> centreStages(c.cfLow, c.cfHigh, c.cfCentre, mode)]
      /\ UNCHANGED notTs

TsNext == TsSample

----------------------------------------------------------------------------
(* Filter bank, one state-variable filter.  A JavaScript Number is kept as   *)
(* a mantissa of MantBits bits (53 in the engine) and a binary exponent of  *)
(* the double's range: m * 2^e, rounded toward zero, not finite once the    *)
(* value passes 2^MaxExp.                                                   *)

\* bits of mantissa
MantBits == 12

\* a double is finite below 2^1024 and is zero below 2^-1074
MaxExp == 1024

MinExp == -1074

NotFinite == [ok |-> FALSE, m |-> 0, e |-> 0]

FZero == [ok |-> TRUE, m |-> 0, e |-> 0]

RECURSIVE FNorm(_, _)
\* m * 2^e with the mantissa brought to MantBits bits
FNorm(m, e) ==
  IF m = 0 THEN FZero
  ELSE IF Abs(m) >= 2 ^ MantBits
  THEN FNorm((IF m < 0 THEN -1 ELSE 1) * (Abs(m) \div 2), e + 1)
  ELSE IF Abs(m) < 2 ^ (MantBits - 1) THEN FNorm(m * 2, e - 1)
  ELSE IF e + MantBits > MaxExp THEN NotFinite
  ELSE IF e + MantBits < MinExp THEN FZero
  ELSE [ok |-> TRUE, m |-> m, e |-> e]

FInt(k) == FNorm(k, 0)

FAdd(a, b) ==
  IF ~a.ok \/ ~b.ok THEN NotFinite
  ELSE IF a.m = 0 THEN b
  ELSE IF b.m = 0 THEN a
  ELSE LET hi == IF a.e >= b.e THEN a ELSE b
           lo == IF a.e >= b.e THEN b ELSE a
       IN  IF hi.e - lo.e > MantBits + 1 THEN hi
           ELSE FNorm(hi.m * 2 ^ (hi.e - lo.e) + lo.m, lo.e)

FSub(a, b) == FAdd(a, [b EXCEPT !.m = -@])

FMul(a, b) ==
  IF ~a.ok \/ ~b.ok THEN NotFinite ELSE FNorm(a.m * b.m, a.e + b.e)

\* b is never zero where the filter divides
FDiv(a, b) ==
  IF ~a.ok \/ ~b.ok THEN NotFinite
  ELSE LET n == a.m * 2 ^ MantBits
       IN  FNorm((IF (n < 0) # (b.m < 0) THEN -1 ELSE 1) * (Abs(n) \div Abs(b.m)),
                 a.e - b.e - MantBits)

FromRat(x) == FDiv(FInt(x.n), FInt(x.d))

\* 2 * Math.sin(Math.PI * r) for r = n / d in [0, 1], the sine by Bhaskara's
\* rational formula 16 r (1 - r) / (5 - 4 r (1 - r)), which is within 0.0017
\* of it
twoSinPi(r) ==
  FDiv(FInt(32 * r.n * (r.d - r.n)),
       FInt(5 * r.d * r.d - 4 * r.n * (r.d - r.n)))

FLt(a, b) == FSub(a, b).m < 0

FMin(a, b) == IF FLt(b, a) THEN b ELSE a

FMax(a, b) == IF FLt(a, b) THEN b ELSE a

calculateFreqCoeff(cutoffHz, rate) ==
  FMin(FromRat(Rat(199, 100)),
       FMax(FromRat(Rat(1, 10000)), twoSinPi(Rat(cutoffHz, rate))))

calculateResonance(quality) ==
  IF RatLt(quality, Rat(1, 2)) THEN Rat(1, 2)
  ELSE LET amount == RatMul(RatSub(quality, Rat(1, 2)), RatInt(2))
       IN  RatAdd(Rat(1, 2), RatMul(Rat(59, 2), RatMul(amount, amount)))

createSVF == [lp |-> FZero, bp |-> FZero, hp |-> FZero, ic1eq |-> FZero,
              ic2eq |-> FZero]

processSVF(f, input, freqCoeff, resonance) ==
  LET q == FDiv(FInt(1), resonance)
      hp == FDiv(FSub(FSub(input, f.ic2eq), FMul(q, f.ic1eq)),
                 FAdd(FAdd(FInt(1), FMul(q, freqCoeff)),
                      FMul(freqCoeff, freqCoeff)))
      bp == FAdd(FMul(freqCoeff, hp), f.ic1eq)
      ic1eq == FAdd(FMul(freqCoeff, hp), bp)
      lp == FAdd(FMul(freqCoeff, bp), f.ic2eq)
      ic2eq == FAdd(FMul(freqCoeff, bp), lp)
  IN  [lp |-> lp, bp |-> bp, hp |-> hp, ic1eq |-> ic1eq, ic2eq |-> ic2eq]

\* the samples of one run
MaxSamples == 10000

CutoffInputs == {20, 20000}

RateInputs == {44100, 96000}

QualityInputs == {Rat(1, 2), RatInt(1)}

\* a full-scale input sample, denormalised to 5 V
FullScale == FInt(5)

\* no filter is running
SvfIdle ==
  /\ svfSet = [on |-> FALSE]
  /\ svf = createSVF
  /\ svfSamples = 0

\* a filter as constructed, with the controls it will run at
SvfInit ==
  /\ \E cutoffHz \in CutoffInputs, rate \in RateInputs, quality \in QualityInputs :
       svfSet = [on |-> TRUE, cutoffHz |-> cutoffHz, rate |-> rate,
                 quality |-> quality,
                 freqCoeff |-> calculateFreqCoeff(cutoffHz, rate),
                 resonance |-> calculateResonance(quality)]
  /\ svf = createSVF
  /\ svfSamples = 0

SvfSample ==
  /\ svfSet.on
  /\ svfSamples < MaxSamples
  /\ \E r \in {processSVF(svf, FullScale, svfSet.freqCoeff,
                           FromRat(svfSet.resonance))} :
       svf' = r
  /\ svfSamples' = svfSamples + 1
  /\ UNCHANGED <<svfSet, notSvf>>

SvfNext == SvfSample

----------------------------------------------------------------------------
(* Slope generator, version A: the FM of one sample of process().  The      *)
(* frequencies are exact fractions of a hertz.                              *)

\* the fmDepth knob: the ends, both sides, the centre and a place within
\* the dead zone around the centre
JfFmDepths == {Rat(0, 1), Rat(1, 4), Rat(1, 2), Rat(101, 200), Rat(3, 4), Rat(1, 1)}

\* the fmMode switch: INTONE side, centre, TIME side
JfFmModes == {Rat(0, 1), Rat(1, 2), Rat(1, 1)}

\* one sample of the FM input
JfFmInputs == {RatInt(-1), RatInt(0), RatInt(1)}

\* adjustedBaseFreq, in hertz
JfBaseFreqs == {1, 100}

\* lines 399-412: slopeFreq after the FM of channel `index`
applyFm(slopeFreq, fmDepth, fmVal, index) ==
  IF RatLt(Rat(1, 100), RatAbs(RatSub(fmDepth, Rat(1, 2))))
  THEN LET fmAmount == RatMul(RatSub(fmDepth, Rat(1, 2)), RatInt(2))
       IN  IF RatLt(Rat(1, 2), fmDepth)
           THEN RatAdd(slopeFreq,
                       RatMul(RatMul(fmVal, RatAbs(fmAmount)), RatInt(100)))
           ELSE RatAdd(slopeFreq,
                       RatMul(RatMul(RatMul(fmVal, RatAbs(fmAmount)),
                                     RatInt(100)),
                              Rat(index, 6)))
  ELSE slopeFreq

FmIdle == fmObs = [ran |-> FALSE]

\* the frequency part of one sample: fmMode is read from the parameters
\* (line 368) and the six channels are computed from the other controls
FmSample ==
  \E fmDepth \in JfFmDepths, fmMode \in JfFmModes, fmVal \in JfFmInputs,
     adjustedBaseFreq \in JfBaseFreqs, intoneTotal \in {0, IntoneRes, IntoneDen} :
    \E before \in {[i \in 1..NumSlopes |->
                      RatMul(RatInt(adjustedBaseFreq),
                             getIntoneRatio(i, intoneTotal))]} :
      \E after \in {[i \in 1..NumSlopes |->
                       applyFm(before[i], fmDepth, fmVal, i)]} :
        /\ fmObs' = [ran |-> TRUE, fmDepth |-> fmDepth, fmMode |-> fmMode,
                     fmVal |-> fmVal, before |-> before, after |-> after,
                     frequency |-> [i \in 1..NumSlopes |->
                                      RatMax(Rat(1, 1000), after[i])]]
        /\ UNCHANGED <<mangrove, zita, notMore>>

FmNext == FmSample

----------------------------------------------------------------------------
(* Formant oscillator (MangroveProcessor in src/unnamed/part_000): the      *)
(* triangle core of process().  Frequencies are exact fractions of a hertz, *)
(* the phase an exact fraction of a cycle.                                  *)

\* the context's sample rate, in hertz
SampleRate == 48000

\* samples followed in one run
MaxMgSamples == 4

\* the pitch knob in sixths of its travel
PitchKnobs == 0..6

\* pitchVolt + fineVolt, in whole volts
TotalVolts == {-1, 0, 1}

\* the fmIndex parameter
FmIndexParams == {RatInt(0), Rat(1, 2), RatInt(1)}

\* one sample of the FM input
MgFmInputs == {RatInt(-1), RatInt(0), RatInt(1)}

\* pitchKnobToFreq for knob = sixths / 6
pitchKnobToFreq(sixths) == RatMul(RatInt(440), Pow2(sixths - 3))

\* x + y over the least common denominator
RatSum(x, y) ==
  LET g == GCD(x.d, y.d)
  IN  Rat(x.n * (y.d \div g) + y.n * (x.d \div g), (x.d \div g) * y.d)

generateTriangle(phase) ==
  IF RatLt(phase, Rat(1, 2))
  THEN RatAdd(RatInt(-1), RatMul(phase, RatInt(4)))
  ELSE RatSub(RatInt(3), RatMul(phase, RatInt(4)))

\* the oscillator core of one sample: the phase after it
advancePhase(phase, sixths, totalVolt, fmIndexParam, fmSignal) ==
  LET frequency == RatMul(pitchKnobToFreq(sixths), Pow2(totalVolt))
      actualFmIndex == RatMul(fmIndexParam, RatInt(20))
      fmAmount == RatMul(RatMul(fmSignal, actualFmIndex), frequency)
      modulatedFreq == RatMax(Rat(1, 10), RatAdd(frequency, fmAmount))
      advanced == RatSum(phase, RatDiv(modulatedFreq, RatInt(SampleRate)))
  IN  IF RatLe(RatInt(1), advanced) THEN RatSub(advanced, RatInt(1))
      ELSE advanced

MgIdle == mangrove = [on |-> FALSE]

MgInit ==
  mangrove = [on |-> TRUE, phase |-> RatInt(0), triangle |-> RatInt(-1),
              samples |-> 0]

MgSample ==
  /\ mangrove.on
  /\ mangrove.samples < MaxMgSamples
  /\ \E sixths \in PitchKnobs, totalVolt \in TotalVolts,
        fmIndexParam \in FmIndexParams, fmSignal \in MgFmInputs :
       \E p \in {advancePhase(mangrove.phase, sixths, totalVolt,
                              fmIndexParam, fmSignal)} :
         mangrove' = [on |-> TRUE, phase |-> p,
                      triangle |-> generateTriangle(p),
                      samples |-> mangrove.samples + 1]
  /\ UNCHANGED <<fmObs, zita, notMore>>

MgNext == MgSample

----------------------------------------------------------------------------
(* ZitaReverb.init (src/ZitaReverb.js).  init is an async function: a call  *)
(* runs to its await of audioWorklet.addModule, and its remainder runs      *)
(* later, when the module has loaded or failed to load; other calls can     *)
(* start in between.  Nodes are numbered in the order of their creation     *)
(* and 0 stands for null.                                                   *)

\* init() calls made on the one instance
MaxInitCalls == 4

InitCalls == 1..MaxInitCalls

ZitaIdle == zita = [on |-> FALSE]

\* the constructor, and no call made yet
ZitaNew ==
  zita = [on |-> TRUE, node |-> 0, isInitialized |-> FALSE, created |-> 0,
          calls |-> [c \in InitCalls |-> [at |-> "not called", result |-> 0]]]

\* a call starts: it returns this.node when initialized, otherwise it
\* reaches the await
ZitaInitCall(c) ==
  /\ zita.on
  /\ zita.calls[c].at = "not called"
  /\ zita' = IF zita.isInitialized
             THEN [zita EXCEPT !.calls[c] = [at |-> "resolved",
                                             result |-> zita.node]]
             ELSE [zita EXCEPT !.calls[c].at = "awaiting"]
  /\ UNCHANGED <<fmObs, mangrove, notMore>>

\* the module has loaded: the call creates a node, stores it and returns it
ZitaModuleLoaded(c) ==
  /\ zita.on
  /\ zita.calls[c].at = "awaiting"
  /\ \E node \in {zita.created + 1} :
       zita' = [zita EXCEPT !.node = node, !.created = node,
                            !.isInitialized = TRUE,
                            !.calls[c] = [at |-> "resolved", result |-> node]]
  /\ UNCHANGED <<fmObs, mangrove, notMore>>

\* the module failed to load: the call logs the error and rejects
ZitaModuleFailed(c) ==
  /\ zita.on
  /\ zita.calls[c].at = "awaiting"
  /\ zita' = [zita EXCEPT !.calls[c].at = "rejected"]
  /\ UNCHANGED <<fmObs, mangrove, notMore>>

ZitaNext ==
  \E c \in InitCalls :
    ZitaInitCall(c) \/ ZitaModuleLoaded(c) \/ ZitaModuleFailed(c)

MoreIdle == FmIdle /\ MgIdle /\ ZitaIdle

----------------------------------------------------------------------------
(* Specifications                                                           *)

\* no parameter array is being read
ParIdle == ParInit /\ parArray = <<0>>

\* the sections added after the first four, as constructed
AuxIdle == RatioIdle /\ ThreadIdle /\ EqInit /\ SatIdle /\ TsIdle /\ SvfIdle
             /\ ClkIdle /\ MoreIdle

\* the quantizer, in either version; the other processors as constructed
InitQ == QInit /\ DrumInit /\ JfInitB /\ ParIdle /\ AuxIdle

SpecQ == InitQ /\ [][QNext]_vars

\* the drum sequencer
InitDrum == QIdle /\ DrumInit /\ JfInitB /\ ParIdle /\ AuxIdle

SpecDrum == InitDrum /\ [][DrumNext]_vars

\* the slope generator, in either version, every control free
InitJf == QIdle /\ DrumInit /\ JfInit /\ ParIdle /\ AuxIdle

SpecJf == InitJf /\ [][JfNext]_vars

\* version A of the slope generator
InitJfA == QIdle /\ DrumInit /\ JfInitA /\ ParIdle /\ AuxIdle

\* version A with MODE = transient, RANGE = sound, RAMP = 0.5, CURVE = 0.5
JfScenario1Sample ==
  JfSampleWith(1..MaxFreq, {0}, {Half}, {Half}, {1})

SpecScenario1 == InitJfA /\ [][JfScenario1Sample]_vars

\* version A held in sustain mode with RAMP = 0.5 and CURVE = 0.5
JfSustainSample ==
  JfSampleWith(1..MaxFreq, {1}, {Half}, {Half}, RangeInputs)

SpecSustain == InitJfA /\ [][JfSustainSample]_vars

\* version A with the mode switched at will and every phase increment up to
\* MaxFreq, CURVE = 0.5 and SHAPE range; runs are followed while the phase is
\* within two cycles
JfModesSample ==
  /\ slope.phase < 2 * PhaseDen
  /\ JfSampleWith(1..MaxFreq, ModeInputs, RampInputs, {Half}, {0})

SpecModes == InitJfA /\ [][JfModesSample]_vars

\* either version held in sustain mode from construction, CURVE = 0.5
JfGateSample ==
  JfSampleWith(FreqInputs, {1}, RampInputs, {Half}, RangeInputs)

SpecGate == InitJf /\ [][JfGateSample]_vars

\* the parameter reads
InitPar == QIdle /\ DrumInit /\ JfInitB /\ ParInit /\ AuxIdle

SpecPar == InitPar /\ [][ParNext]_vars

\* the INTONE ratio, in either version
InitRatio == QIdle /\ DrumInit /\ JfInit /\ ParIdle /\ AuxIdle

SpecRatio == InitRatio /\ [][RatioNext]_vars

\* the drum sequencer once the controller has set every step of every voice
\* (48 setStep messages after construction)
FullPattern == [k \in 1..NumSteps |-> 1]

InitAllStepsSet ==
  /\ QIdle /\ JfInitB /\ ParIdle /\ AuxIdle
  /\ prevStepPulse = 0
  /\ prevResetPulse = 0
  /\ samplesSinceLastPulse = 0
  /\ samplesPerDrumStep = RatInt(0)
  /\ nextStepAt = RatInt(0)
  /\ currentStep = 0
  /\ swingAmount = RatInt(0)
  /\ kickPattern = FullPattern
  /\ snarePattern = FullPattern
  /\ hatPattern = FullPattern
  /\ kickOut = Silence
  /\ snareOut = Silence
  /\ hatOut = Silence
  /\ drumEvents = << >>

SpecPulse == InitAllStepsSet /\ [][DrumProcess]_vars

\* the saturation effect, constructed with any mode option
InitSat ==
  /\ QIdle /\ DrumInit /\ JfInitB /\ ParIdle
  /\ RatioIdle /\ ThreadIdle /\ EqInit /\ TsIdle /\ SvfIdle /\ ClkIdle
  /\ MoreIdle
  /\ SatInit

SpecSat == InitSat /\ [][SatNext]_vars

\* the cutoffs of the filter bank
InitTs == QIdle /\ DrumInit /\ JfInitB /\ ParIdle /\ AuxIdle

SpecTs == InitTs /\ [][TsNext]_vars

\* one filter of the bank on full-scale input
InitSvf ==
  /\ QIdle /\ DrumInit /\ JfInitB /\ ParIdle
  /\ RatioIdle /\ ThreadIdle /\ EqInit /\ SatIdle /\ TsIdle /\ ClkIdle
  /\ MoreIdle
  /\ SvfInit

SpecSvf == InitSvf /\ [][SvfNext]_vars

\* the drum sequencer under a steady clock
InitClk ==
  /\ QIdle /\ DrumInit /\ JfInitB /\ ParIdle
  /\ RatioIdle /\ ThreadIdle /\ EqInit /\ SatIdle /\ TsIdle /\ SvfIdle
  /\ MoreIdle
  /\ ClkInit

SpecClk == InitClk /\ [][ClkNext]_vars

\* the drum sequencer with messages of every kind
SpecMsg == InitDrum /\ [][MsgNext]_vars

\* the drum sequencer with messages of every type and voice for steps inside
\* the patterns
SpecVoices == InitDrum /\ [][VoicesNext]_vars

\* the FM of the slope generator
InitFm ==
  /\ QIdle /\ DrumInit /\ JfInitA /\ slope.phase = 0 /\ ParIdle /\ AuxIdle

SpecFm == InitFm /\ [][FmNext]_vars

\* the core of the formant oscillator
InitMg ==
  /\ QIdle /\ DrumInit /\ JfInitB /\ ParIdle
  /\ RatioIdle /\ ThreadIdle /\ EqInit /\ SatIdle /\ TsIdle /\ SvfIdle
  /\ ClkIdle /\ FmIdle /\ ZitaIdle
  /\ MgInit

SpecMg == InitMg /\ [][MgNext]_vars

\* init() calls on one ZitaReverb
InitZita ==
  /\ QIdle /\ DrumInit /\ JfInitB /\ ParIdle
  /\ RatioIdle /\ ThreadIdle /\ EqInit /\ SatIdle /\ TsIdle /\ SvfIdle
  /\ ClkIdle /\ FmIdle /\ MgIdle
  /\ ZitaNew

SpecZita == InitZita /\ [][ZitaNext]_vars

\* messages and blocks on the worklet thread
InitThread == QIdle /\ DrumInit /\ JfInitB /\ ParIdle /\ AuxIdle

SpecThread == InitThread /\ [][ThreadNext]_vars

\* the equalizer
InitEq == QIdle /\ DrumInit /\ JfInitB /\ ParIdle /\ AuxIdle

SpecEq == InitEq /\ [][EqNext]_vars

----------------------------------------------------------------------------
(* Properties                                                               *)

\* C1.  Transient mode: a trigger rising edge on an idle channel starts the
\* rise at phase 0, and a rising edge on a rising or falling channel is
\* ignored: the sample ends where the envelope's own motion takes it from
\* (rising, phase 0), respectively from the state and phase it had.
TransientTriggerIgnored ==
  [][(jfObs'.ran /\ jfObs'.mode = 0 /\ jfObs'.edge
        /\ jfObs'.was \in {"idle", "rising", "falling"}) =>
      IF jfBuild = "A"
      THEN LET pre == [slope EXCEPT !.frequency = slope'.frequency,
                                    !.lastTriggerState = 1]
               start == IF slope.state = "idle"
                        THEN [pre EXCEPT !.state = "rising", !.phase = 0]
                        ELSE pre
           IN  \E ramp \in RampInputs, curve \in CurveInputs :
                 slope' = updateSlope(start, 0, ramp, curve, jfObs'.range)
      ELSE LET pre == [slope EXCEPT !.prevTrigger = TRUE]
               start == IF ~slope.active
                        THEN [pre EXCEPT !.active = TRUE, !.rising = TRUE,
                                         !.phase = RatInt(0)]
                        ELSE pre
           IN  \E frequency \in FreqInputs, ramp \in RampInputs,
                  curve \in CurveInputs :
                 slope' = processSlope(start, Rat(frequency, PhaseDen), ramp,
                                       curve, 0, TrigThresholdB + 1,
                                       TrigThresholdB + 1)
    ]_vars

\* a trigger edge has arrived in transient mode while the channel was rising
RetriggerWhileRising ==
  jfObs.ran /\ jfObs.mode = 0 /\ jfObs.edge /\ jfObs.was = "rising"

\* C2.  When a reset pulse and a step pulse rise on the same sample, the
\* cursor is at step 0 after that sample and the three triggers written for
\* it are the pattern bits of step 0.
ResetHasPriority ==
  [][drumPatterns' = drumPatterns =>
      \A i \in 1..Len(drumEvents') :
        (drumEvents'[i].reset /\ drumEvents'[i].step) =>
          /\ drumEvents'[i].cursor = 0
          /\ kickOut'[i] = PatternAt(kickPattern, 0)
          /\ snareOut'[i] = PatternAt(snarePattern, 0)
          /\ hatOut'[i] = PatternAt(hatPattern, 0)
    ]_vars

\* C3.  With the mask that allows only C, the quantized voltage is a whole
\* number of volts and no other whole number of volts is nearer to the input.
OnlyCNearestOctave ==
  (qWritten /\ noteMask = MaskOf({0})) =>
    /\ qQuantized % Volt = 0
    /\ 2 * Abs(qQuantized - qVolts) <= Volt

\* C4.  With the chromatic mask the quantized voltage is round(12 v) / 12.
ChromaticRoundsToNearest ==
  (qWritten /\ noteMask = Chromatic) => qQuantized = RoundSemi(qVolts) * Sub

\* C5.  Quantizing a quantized voltage returns it, and a voltage k/12 whose
\* pitch class is allowed is returned unchanged.
IdempotentQuantize ==
  qWritten =>
    /\ Quantize(qBuild, noteMask, qQuantized) = qQuantized
    /\ (qVolts % Sub = 0 /\ noteMask[(qVolts \div Sub) % 12]) =>
         qQuantized = qVolts

\* a voltage off the major scale has been moved onto it
SnappedToMajorScale ==
  qWritten /\ noteMask = MajorScale /\ qQuantized # qVolts

\* C6.  MODE = transient, RANGE = sound, RAMP = CURVE = 0.5: while rising the
\* value is at least -5 and does not decrease, the rise ends at +5, while
\* falling the value does not increase and is at least -5, and an idle
\* channel is at -5 and stays idle until a trigger edge.
Scenario1Envelope ==
  [][/\ slope'.state \in {"idle", "rising", "falling"}
     /\ slope'.state = "rising" =>
          /\ RatLe(RatInt(-5), slope'.value)
          /\ RatLe(slope'.value, RatInt(5))
          /\ slope.state = "rising" => RatLe(slope.value, slope'.value)
     /\ slope.state = "rising" =>
          /\ slope'.state \in {"rising", "falling"}
          /\ slope'.state = "falling" => slope'.value = RatInt(5)
     /\ (slope.state = "falling" /\ jfObs.ran) =>
          /\ slope'.state \in {"falling", "idle"}
          /\ RatLe(slope'.value, slope.value)
          /\ RatLe(RatInt(-5), slope'.value)
     /\ slope'.state = "idle" => slope'.value = RatInt(-5)
     /\ (slope.state = "idle" /\ ~jfObs'.edge) => slope'.state = "idle"
    ]_vars

\* the rise has ended and the fall is under way
Scenario1MidFall ==
  /\ jfObs.ran
  /\ slope.state = "falling"
  /\ RatLt(RatInt(-5), slope.value)
  /\ RatLt(slope.value, RatInt(5))

\* C7.  After every sample the channel value is in [0, 8] in SHAPE range and
\* in [-5, 5] in SOUND range.
OutputInRange ==
  (jfBuild = "A" /\ jfObs.ran) =>
    IF IsShape(jfObs.range)
    THEN RatLe(RatInt(0), slope.value) /\ RatLe(slope.value, RatInt(8))
    ELSE RatLe(RatInt(-5), slope.value) /\ RatLe(slope.value, RatInt(5))

\* C8.  With swing s > 0 an odd-numbered internal subdivision (the first,
\* third, ... after a step pulse) fires no earlier than s step periods after
\* its even-spaced time.
SwingDelaysOffbeat ==
  (Len(drumEvents) > 0 /\ drumEvents[Len(drumEvents)].sub
     /\ swingAmount.n > 0 /\ samplesPerDrumStep.n > 0) =>
    LET nominal == RatSub(nextStepAt, samplesPerDrumStep)
        k == RatDiv(nominal, samplesPerDrumStep)
    IN  (k.d = 1 /\ k.n % 2 = 1) =>
          RatLe(RatAdd(nominal, RatMul(swingAmount, samplesPerDrumStep)),
                RatInt(samplesSinceLastPulse))

\* C9.  The value used for sample i of a block is element i of the parameter
\* array when the array has one, and element 0 otherwise, in the formant
\* oscillator and in both versions of the slope generator.
PerSampleParameter ==
  parIndex > 0 =>
    LET i == parIndex - 1
        want == IF i < Len(parArray) THEN parArray[i + 1] ELSE parArray[1]
    IN  /\ parUsed.jfA = want
        /\ parUsed.mangrove = want
        /\ parUsed.jfB = want

\* C10.  A process() call with an input channel missing gives the output and
\* the state of the same call with that channel all zeros, in the quantizer,
\* the drum sequencer and the slope generator.
MissingInputIsSilence ==
  /\ \A depth \in DepthInputs, offset \in OffsetInputs :
       quantizerProcess(qBuild, noteMask, NoChannel, depth, offset).out
         = quantizerProcess(qBuild, noteMask, <<0>>, depth, offset).out
  /\ \A other \in PulseChannels, divisionParam \in DivisionInputs :
       /\ drumProcess(DrumState, NoChannel, other, divisionParam)
            = drumProcess(DrumState, Silence, other, divisionParam)
       /\ drumProcess(DrumState, other, NoChannel, divisionParam)
            = drumProcess(DrumState, other, Silence, divisionParam)
  /\ \A frequency \in FreqInputs, mode \in ModeInputs, ramp \in RampInputs,
        curve \in CurveInputs, range \in RangeInputs :
       jfSample(jfBuild, slope, lastTriggers, frequency, NoChannel, mode,
                ramp, curve, range)
         = jfSample(jfBuild, slope, lastTriggers, frequency, <<0>>, mode,
                    ramp, curve, range)

\* C11.  The INTONE ratio of channel i is i at INTONE = 1, 1/i at INTONE = 0
\* and 1 at INTONE = 0.5, and the ratio of channel 1 is 1 at every INTONE.
IntoneRatioExtremes ==
  ratioObs.ran =>
    /\ ratioObs.index = 1 => ratioObs.ratio = RatInt(1)
    /\ ratioObs.intone = IntoneDen => ratioObs.ratio = RatInt(ratioObs.index)
    /\ ratioObs.intone = 0 => ratioObs.ratio = Rat(1, ratioObs.index)
    /\ ratioObs.intone = IntoneRes => ratioObs.ratio = RatInt(1)

\* channel 3 at the undertone extreme
ThirdUndertone ==
  ratioObs.ran /\ ratioObs.index = 3 /\ ratioObs.intone = 0
    /\ ratioObs.ratio = Rat(1, 3)

\* C12.  Every sample of a block reads the same mask and the same patterns,
\* and while a block runs they are the processor's current ones: a message
\* takes effect between two blocks and is seen by the next block.
UpdatesBetweenBlocks ==
  /\ \A i, j \in 1..Len(blkUsed) : blkUsed[i] = blkUsed[j]
  /\ blkSample > 0 =>
       \A i \in 1..Len(blkUsed) :
         blkUsed[i] = [mask |-> noteMask, kick |-> kickPattern,
                       snare |-> snarePattern, hat |-> hatPattern]

\* a block is past its first sample while a message for each processor,
\* with another mask than the block reads, is waiting
MessageWaitsMidBlock ==
  /\ blkSample > 1
  /\ maskInbox # << >>
  /\ patternInbox # << >>
  /\ blkUsed[1].mask # Head(maskInbox)

\* C14.  After reset() no band is killed (gain node target 1) and every
\* band's filter gain target is 0 dB.
ResetIsFlat ==
  eqLast = "reset" =>
    \A b \in Bands : eq[b].nodeGain = 1 /\ eq[b].filterGain = 0

\* C13.  With a step period of at least 2 samples, a voice output is
\* non-zero only on a sample on which the cursor moved or was reset and the
\* pattern bit of the new step is set, and no voice output is non-zero on two
\* consecutive samples.  (Stated for the pairs of samples whose second sample
\* has no pulse edge of its own on either input.)
OneSampleWide ==
  [][(drumPatterns' = drumPatterns /\ RatLe(RatInt(2), samplesPerDrumStep)
        /\ RatLe(RatInt(2), samplesPerDrumStep')) =>
      LET before == Len(kickOut)
          kick == kickOut \o kickOut'
          snare == snareOut \o snareOut'
          hat == hatOut \o hatOut'
      IN  \A i \in 1..Len(drumEvents') :
            LET e == drumEvents'[i]
            IN  /\ kickOut'[i] # 0 =>
                     /\ e.reset \/ e.step \/ e.sub
                     /\ PatternAt(kickPattern, e.cursor) = 1
                /\ snareOut'[i] # 0 =>
                     /\ e.reset \/ e.step \/ e.sub
                     /\ PatternAt(snarePattern, e.cursor) = 1
                /\ hatOut'[i] # 0 =>
                     /\ e.reset \/ e.step \/ e.sub
                     /\ PatternAt(hatPattern, e.cursor) = 1
                /\ (~e.reset /\ ~e.step) =>
                     /\ ~(kick[before + i - 1] # 0 /\ kick[before + i] # 0)
                     /\ ~(snare[before + i - 1] # 0 /\ snare[before + i] # 0)
                     /\ ~(hat[before + i - 1] # 0 /\ hat[before + i] # 0)
    ]_vars

\* C15.  Whatever mode string the constructor or setMode was given, the
\* effect's mode is one of the four valid modes, and an unrecognised string
\* leaves the mode 'tape' and the tape curve in the shaper.
ModeFallsBackToTape ==
  /\ sat.mode \in validModes
  /\ satAsked \notin validModes =>
       /\ sat.mode = "tape"
       /\ sat.curve.formula = "tape"

\* the output of a channel lies strictly between its rest and its maximum
PartWay ==
  /\ RatLt(IF IsShape(jfObs.range) THEN RatInt(0) ELSE RatInt(-1), jfOut)
  /\ RatLt(jfOut, IF IsShape(jfObs.range) THEN Rat(8, 5) ELSE RatInt(1))

\* C16.  RAMP direction, at the two ends of the knob in cycle mode: at
\* RAMP = 0 the rise is instant, so no sample leaves the channel part-way up a
\* rise, and at RAMP = 1 the fall is instant, so no sample leaves it part-way
\* down a fall.
RampDirection ==
  (jfObs.ran /\ jfObs.mode = 2) =>
    /\ jfObs.ramp = 0 => ~(Stage(jfBuild, slope) = "rising" /\ PartWay)
    /\ jfObs.ramp = PhaseDen => ~(Stage(jfBuild, slope) = "falling" /\ PartWay)

\* C17.  In crossover mode with FREQ at its centre, no FM and SPAN = 0, the
\* LOW and HIGH cutoffs are both 500 Hz and the CENTRE block is a highpass at
\* 500 Hz followed by a lowpass at 500 Hz.
NoSpreadAt500 ==
  (/\ tsObs.ran
   /\ tsObs.mode = 0
   /\ tsObs.freq = Rat(1, 2)
   /\ tsObs.fm = 0
   /\ tsObs.span = RatInt(0)) =>
    /\ tsObs.cfLow = RatInt(500)
    /\ tsObs.cfHigh = RatInt(500)
    /\ tsObs.centre = <<[take |-> "hp", cutoff |-> RatInt(500)],
                        [take |-> "lp", cutoff |-> RatInt(500)]>>

\* C18.  For every cutoff in [20, 20000] Hz and sample rate in
\* [44100, 96000] the coefficient is strictly between 0 and 2, and the two
\* integrator states of the filter stay finite over 10,000 samples of
\* full-scale input.
SvfStable ==
  svfSet.on =>
    /\ FLt(FInt(0), svfSet.freqCoeff)
    /\ FLt(svfSet.freqCoeff, FInt(2))
    /\ svf.ic1eq.ok
    /\ svf.ic2eq.ok

\* the stage of a channel in sustain mode.  Version B has no stage of its
\* own for the hold: it is the rise stopped at phase 1.
SustainStage(build, sl) ==
  IF build = "B" /\ sl.active /\ sl.rising /\ sl.phase = RatInt(1)
  THEN "sustaining"
  ELSE Stage(build, sl)

\* the trigger input of the sample just processed is high (both thresholds)
GateHigh(obs) == obs.ran /\ obs.trig > TrigThreshold /\ obs.trig > TrigThresholdB

\* the channel holds the maximum of its range
AtMax(build, sl, range) ==
  IF build = "A" THEN sl.value = maxValue(range) ELSE sl.value = RatInt(1)

\* C19.  Sustain mode, one sample at a time: a gate going high on an idle or
\* falling channel starts the rise (which may already have reached the hold in
\* that sample); a rise under a high gate ends only in the hold, at the
\* maximum value, and the hold lasts while the gate is high; a gate going low
\* on a rising or sustaining channel starts the fall; a fall under a low gate
\* ends only in idle.
SustainStages ==
  [][LET before == SustainStage(jfBuild, slope)
         after == SustainStage(jfBuild, slope')
         wentHigh == ~GateHigh(jfObs) /\ GateHigh(jfObs')
         wentLow == GateHigh(jfObs) /\ ~GateHigh(jfObs')
     IN  /\ (wentHigh /\ before \in {"idle", "falling"}) =>
              after \in {"rising", "sustaining"}
         /\ (GateHigh(jfObs') /\ before \in {"rising", "sustaining"}) =>
              /\ after \in {"rising", "sustaining"}
              /\ before = "sustaining" => after = "sustaining"
              /\ after = "sustaining" => AtMax(jfBuild, slope', jfObs'.range)
         /\ (wentLow /\ before \in {"rising", "sustaining"}) =>
              after \in {"falling", "idle"}
         /\ (~GateHigh(jfObs') /\ before \in {"falling", "idle"}) =>
              after \in {"falling", "idle"}
    ]_vars

\* C20.  After every sample processed in cycle mode the channel is rising or
\* falling, whatever an earlier mode left, its phase is in [0, 1), and on a
\* sample with a trigger rising edge the phase restarts from 0 (it is one
\* phase increment past 0 when the sample ends).
CycleRuns ==
  (jfBuild = "A" /\ jfObs.ran /\ jfObs.mode = 2) =>
    /\ slope.state \in {"rising", "falling"}
    /\ 0 <= slope.phase /\ slope.phase < PhaseDen
    /\ jfObs.edge => slope.phase = slope.frequency % PhaseDen

\* C21.  Under a steady clock of period P with division D (1 <= D <= 16,
\* D <= P), from the second pulse on the cursor advances once on each pulse
\* sample and D times in every clock period.
DivisionStepsPerPeriod ==
  /\ clkSeen.pulses >= 2 => (clkSeen.onPulse = 1 /\ clkSeen.steps <= clk.division)
  /\ clkSeen.pulses >= 3 => clkSeen.last = clk.division

\* a period of 4 samples divided in 3 has been played in full
ThreeStepsInFourSamples ==
  /\ clk.on /\ clk.period = 4 /\ clk.division = 3
  /\ clkSeen.pulses >= 3
  /\ clkSeen.last = 3

\* the pitch class the search of the last sample started from: the floor of
\* the position within the octave in version A, its rounding in version B
StartSemitone ==
  LET semitonesInOctave == qVolts - (qVolts \div Volt) * Volt
  IN  IF qBuild = "A" THEN FloorSemi(semitonesInOctave)
      ELSE RoundSemi(semitonesInOctave) % 12

CircularDistance(a, b) == Min2((a - b + 12) % 12, (b - a + 12) % 12)

\* C22.  The pitch class of quantizeVoltage's result is allowed in the mask
\* and no allowed pitch class is nearer, around the circle, to the starting
\* semitone (so it is at most 6 away); with no allowed pitch class the result
\* has pitch class 0.
QuantizedIsNearestAllowed ==
  qWritten =>
    LET pc == (qQuantized \div Sub) % 12
    IN  /\ qQuantized % Sub = 0
        /\ IF \E k \in PitchClasses : noteMask[k]
           THEN /\ noteMask[pc]
                /\ CircularDistance(pc, StartSemitone) <= 6
                /\ \A k \in PitchClasses :
                     noteMask[k] =>
                       CircularDistance(pc, StartSemitone)
                         <= CircularDistance(k, StartSemitone)
           ELSE pc = 0

\* F sharp has been quantized to C, the only allowed pitch class, six away
TritoneToOnlyC ==
  /\ qWritten /\ noteMask = MaskOf({0})
  /\ StartSemitone = 6
  /\ (qQuantized \div Sub) % 12 = 0

\* the frequency the FM added to channel i in the last sample
FmDeviation(i) == RatSub(fmObs.after[i], fmObs.before[i])

\* C23.  With the FM depth knob off centre, FM-mode on the TIME side adds the
\* same deviation to all six channels and FM-mode on the INTONE side adds a
\* deviation proportional to the channel index; with the depth knob at centre
\* the FM input changes no channel's frequency.
FmStyleFollowsFmMode ==
  fmObs.ran =>
    /\ (fmObs.fmDepth # Rat(1, 2) /\ RatLt(Rat(1, 2), fmObs.fmMode)) =>
         \A i \in 1..NumSlopes : FmDeviation(i) = FmDeviation(1)
    /\ (fmObs.fmDepth # Rat(1, 2) /\ RatLt(fmObs.fmMode, Rat(1, 2))) =>
         \A i \in 1..NumSlopes :
           FmDeviation(i) = RatMul(RatInt(i), FmDeviation(1))
    /\ fmObs.fmDepth = Rat(1, 2) =>
         \A i \in 1..NumSlopes : fmObs.after[i] = fmObs.before[i]

\* C24.  After any setStep and clearPattern messages each of the three
\* patterns has exactly 16 entries, each 0 or 1.
PatternsKeepLength ==
  \A pattern \in {kickPattern, snarePattern, hatPattern} :
    /\ Len(pattern) = NumSteps
    /\ \A k \in 1..Len(pattern) : pattern[k] \in {0, 1}

\* the voices setStep knows, and the ones clearPattern knows
StepVoices == {"kick", "snare", "hat"}

ClearVoices == StepVoices \cup {"all"}

\* C25.  process() leaves the three patterns unchanged: they change only in
\* a step that leaves the timing and the outputs alone, which is a message
\* step; and a setStep or clearPattern message naming an unknown voice, or a
\* message of an unknown type, leaves the patterns and the cursor unchanged.
PatternsChangedOnlyByMessages ==
  [][/\ drumPatterns' # drumPatterns =>
          /\ UNCHANGED <<drumTiming, drumOuts>>
          /\ \E type \in {"setStep", "clearPattern"}, voice \in ClearVoices,
                step \in AnySteps, value \in BOOLEAN :
               OnMessage(type, voice, step, value)
     /\ \/ UNCHANGED <<drumPatterns, currentStep>>
        \/ \A type \in AnyTypes, voice \in AnyVoices, step \in AnySteps,
              value \in BOOLEAN :
             (\/ type = "setStep" /\ voice \notin StepVoices
              \/ type = "clearPattern" /\ voice \notin ClearVoices
              \/ type \notin {"setStep", "clearPattern"})
               => ~OnMessage(type, voice, step, value)
    ]_vars

\* process() has run and moved the cursor with a kick programmed on step 0
ProcessedWithKickSet ==
  /\ kickPattern[1] = 1
  /\ drumEvents # << >>
  /\ currentStep > 0

\* C26.  After every sample the phase p of the formant oscillator's core
\* satisfies 0 <= p < 1, and the triangle is within [-1, +1].
PhaseWithinCycle ==
  (mangrove.on /\ mangrove.samples > 0) =>
    /\ RatLe(RatInt(0), mangrove.phase)
    /\ RatLt(mangrove.phase, RatInt(1))
    /\ RatLe(RatInt(-1), mangrove.triangle)
    /\ RatLe(mangrove.triangle, RatInt(1))

\* C27.  Whatever the modes before, a sample processed in transient mode
\* with a trigger rising edge on a channel that was neither rising nor
\* falling starts the rise: after the sample the channel is rising, or
\* already falling when the rise took no longer than the sample.
TransientAnswersTrigger ==
  (/\ jfBuild = "A" /\ jfObs.ran /\ jfObs.mode = 0 /\ jfObs.edge
   /\ jfObs.was \notin {"rising", "falling"}) =>
    slope.state \in {"rising", "falling"}

\* C28.  At the end of every sample processed in sustain mode with the gate
\* low the channel is falling or idle (it rises or holds only under a high
\* gate), also when an earlier mode left it mid-slope.
SustainNeedsGate ==
  (jfBuild = "A" /\ jfObs.ran /\ jfObs.mode = 1 /\ ~GateHigh(jfObs)) =>
    slope.state \in {"falling", "idle"}

\* C29.  After any gain and kill calls, the filter gain target of every band
\* that is not killed is the gain getState() reports for it.
GainMatchesState ==
  \A b \in Bands :
    ~getState(eq)[b].killed => eq[b].filterGain = getState(eq)[b].gain

\* C30.  For any number of init() calls on one instance, overlapping or not,
\* at most one AudioWorkletNode is created and every call that resolves
\* resolves to that node.
InitCreatesOneNode ==
  zita.on =>
    /\ zita.created <= 1
    /\ \A c \in InitCalls :
         zita.calls[c].at = "resolved" => zita.calls[c].result = zita.node

====
